---- MODULE Spec2Model ----
(***************************************************************************)
(* A model of gopasspw/gitconfig: the single-file Config (config.go), the  *)
(* include loader (loadConfigs) and the scope set Configs.                 *)
(*                                                                         *)
(* Strings are sequences of one-character strings, so that parsing,        *)
(* formatting, case folding and path cleaning are computed character by    *)
(* character as the Go code computes them.  S("...") turns a TLA+ string   *)
(* literal into such a sequence.  Positions are 1-based; where Go returns  *)
(* -1 for "not found" the operators here return 0.                         *)
(***************************************************************************)
EXTENDS Integers, Sequences, FiniteSets, TLC

S(str) == [i \in 1..Len(str) |-> SubSeq(str, i, i)]

\* The one element of a one-element set.  Binding a value through a set
\* ({F(x) : x \in {e}}) evaluates e once before F uses it.
The(set) == CHOOSE x \in set : TRUE

Min(set) == CHOOSE x \in set : \A y \in set : x <= y
Max(set) == CHOOSE x \in set : \A y \in set : x >= y

RECURSIVE SortedSeq(_)
SortedSeq(set) == IF set = {} THEN << >>
                  ELSE The({<<m>> \o SortedSeq(set \ {m}) : m \in {Min(set)}})

Range(f) == {f[i] : i \in DOMAIN f}

(***************************************************************************)
(* Go's strings package, on character sequences.                           *)
(***************************************************************************)
UpperChars == S("ABCDEFGHIJKLMNOPQRSTUVWXYZ")
LowerChars == S("abcdefghijklmnopqrstuvwxyz")
DigitChars == S("0123456789")

IsLower(c) == \E i \in DOMAIN LowerChars : LowerChars[i] = c
IsUpper(c) == \E i \in DOMAIN UpperChars : UpperChars[i] = c
IsDigit(c) == \E i \in DOMAIN DigitChars : DigitChars[i] = c
IsSpace(c) == c \in {" ", "\t", "\n", "\r"}

LowerCh(c) == IF IsUpper(c)
              THEN LowerChars[CHOOSE i \in DOMAIN UpperChars : UpperChars[i] = c]
              ELSE c

ToLower(s) == [i \in 1..Len(s) |-> LowerCh(s[i])]

EqualFold(a, b) == ToLower(a) = ToLower(b)

HasPrefix(s, p) == Len(s) >= Len(p) /\ SubSeq(s, 1, Len(p)) = p
HasSuffix(s, p) == Len(s) >= Len(p) /\ SubSeq(s, Len(s) - Len(p) + 1, Len(s)) = p

TrimPrefix(s, p) == IF HasPrefix(s, p) THEN SubSeq(s, Len(p) + 1, Len(s)) ELSE s
TrimSuffix(s, p) == IF HasSuffix(s, p) THEN SubSeq(s, 1, Len(s) - Len(p)) ELSE s

\* strings.Index / LastIndex / IndexAny for a single character (0: absent)
Index(s, c) == LET hit == {i \in 1..Len(s) : s[i] = c}
               IN IF hit = {} THEN 0 ELSE Min(hit)
LastIndex(s, c) == LET hit == {i \in 1..Len(s) : s[i] = c}
                   IN IF hit = {} THEN 0 ELSE Max(hit)
IndexAny(s, cs) == LET hit == {i \in 1..Len(s) : s[i] \in cs}
                   IN IF hit = {} THEN 0 ELSE Min(hit)
ContainsAny(s, cs) == \E i \in 1..Len(s) : s[i] \in cs

\* strings.Contains(s, sub)
Contains(s, sub) == \E i \in 1..(Len(s) - Len(sub) + 1) :
                        SubSeq(s, i, i + Len(sub) - 1) = sub

\* strings.Trim(s, cutset), strings.TrimSpace(s)
Trim(s, cs) == LET keep == {i \in 1..Len(s) : s[i] \notin cs}
               IN IF keep = {} THEN << >> ELSE SubSeq(s, Min(keep), Max(keep))
TrimSpace(s) == Trim(s, {" ", "\t", "\n", "\r"})

\* strings.Cut(s, sep) for a one-character sep: <<before, after, found>>
Cut(s, c) == LET i == Index(s, c)
             IN IF i = 0 THEN <<s, << >>, FALSE>>
                ELSE <<SubSeq(s, 1, i - 1), SubSeq(s, i + 1, Len(s)), TRUE>>

\* strings.ReplaceAll(s, old, new), old non-empty
RECURSIVE ReplaceAll(_, _, _)
ReplaceAll(s, old, new) ==
    IF Len(s) < Len(old) THEN s
    ELSE IF SubSeq(s, 1, Len(old)) = old
         THEN new \o ReplaceAll(SubSeq(s, Len(old) + 1, Len(s)), old, new)
         ELSE <<s[1]>> \o ReplaceAll(Tail(s), old, new)

\* strings.Replace(s, old, new, 1)
ReplaceFirst(s, old, new) ==
    LET hit == {i \in 1..(Len(s) - Len(old) + 1) : SubSeq(s, i, i + Len(old) - 1) = old}
    IN IF hit = {} THEN s
       ELSE SubSeq(s, 1, Min(hit) - 1) \o new \o SubSeq(s, Min(hit) + Len(old), Len(s))

\* strings.Join(lines, "\n")
RECURSIVE JoinLines(_)
JoinLines(lines) == IF Len(lines) = 0 THEN << >>
                    ELSE IF Len(lines) = 1 THEN lines[1]
                    ELSE lines[1] \o <<"\n">> \o JoinLines(Tail(lines))

\* bufio.Scanner with the default ScanLines split: the lines of a text, each
\* without its "\n" and without one trailing "\r"; a last line that has no
\* newline is returned, an empty rest after the last newline is not.
ScanLines(text) ==
    LET nl     == {i \in 1..Len(text) : text[i] = "\n"}
        starts == SortedSeq({i \in {1} \cup {j + 1 : j \in nl} : i <= Len(text)})
        stop(b) == LET after == {j \in nl : j >= b}
                   IN IF after = {} THEN Len(text) ELSE Min(after) - 1
    IN [n \in 1..Len(starts) |->
           TrimSuffix(SubSeq(text, starts[n], stop(starts[n])), <<"\r">>)]

(***************************************************************************)
(* utils.go                                                                *)
(***************************************************************************)
\* splitKey returns <<section, subsection, skey>>.
splitKey(key) ==
    The({LET section == IF n > 1 THEN SubSeq(key, 1, n - 1) ELSE << >>
         IN IF n # m /\ m > 1 /\ Len(key) > m
            THEN <<section, SubSeq(key, n + 1, m - 1), SubSeq(key, m + 1, Len(key))>>
            ELSE <<section, << >>, SubSeq(key, n + 1, Len(key))>>
         : n \in {Index(key, ".")}, m \in {LastIndex(key, ".")}})

canonicalizeKey(key) ==
    The({LET section == ToLower(p[1])
             skey    == ToLower(p[3])
         IN IF key = << >> THEN << >>
            ELSE IF section = << >> \/ skey = << >> THEN << >>
            ELSE IF p[2] = << >> THEN section \o <<".">> \o skey
            ELSE section \o <<".">> \o p[2] \o <<".">> \o skey
         : p \in {splitKey(key)}})

\* the index of the first "#" or ";" outside double quotes (0: none), as
\* parseLineForComment's loop over the runes of the line finds it
commentStart(line) ==
    LET quotesBefore(i) == Cardinality({j \in 1..(i - 1) : line[j] = "\""})
        starts == {i \in 1..Len(line) : line[i] \in {"#", ";"} /\ quotesBefore(i) % 2 = 0}
    IN IF starts = {} THEN 0 ELSE Min(starts)

\* parseLineForComment returns <<content, comment>>.
parseLineForComment(rline) ==
    The({IF ~HasPrefix(line, <<"\"">>)
         THEN The({IF hash[3] THEN <<TrimSpace(hash[1]), TrimSpace(hash[2])>>
                   ELSE IF semi[3] THEN <<TrimSpace(semi[1]), TrimSpace(semi[2])>>
                   ELSE <<line, << >> >>
                   : hash \in {Cut(line, "#")}, semi \in {Cut(line, ";")}})
         ELSE The({<<Trim(TrimSpace(IF commentStartIndex # 0
                                    THEN SubSeq(line, 1, commentStartIndex - 1)
                                    ELSE line), {"\""}),
                     IF commentStartIndex # 0
                     THEN TrimSpace(SubSeq(line, commentStartIndex + 1, Len(line)))
                     ELSE << >> >>
                   : commentStartIndex \in {commentStart(line)}})
         : line \in {TrimSpace(rline)}})

(***************************************************************************)
(* config.go: the line formats, the regular expressions, the parser        *)
(***************************************************************************)
\* CompatMode, the package variable: off unless a caller turns it on.
CompatMode == FALSE

\* reValidKey = ^[a-z]+[a-z0-9-]*$
reValidKey(k) == /\ Len(k) >= 1
                 /\ IsLower(k[1])
                 /\ \A i \in 1..Len(k) : IsLower(k[i]) \/ IsDigit(k[i]) \/ k[i] = "-"

\* reQuotedComment = "[^"]*[#;][^"]*" matched anywhere in s
reQuotedComment(s) ==
    \E i, j \in 1..Len(s) :
        /\ i < j
        /\ s[i] = "\"" /\ s[j] = "\""
        /\ \A x \in (i + 1)..(j - 1) : s[x] # "\""
        /\ \E x \in (i + 1)..(j - 1) : s[x] \in {"#", ";"}

\* keyTpl = "\t%s%s", keyValueTpl = "\t%s = %s%s"
formatKeyValue(key, value, comment) ==
    IF TrimSpace(value) = << >>
    THEN <<"\t">> \o key \o comment
    ELSE <<"\t">> \o key \o S(" = ") \o value \o comment

\* parseSectionHeader returns <<section, subsection, skip>>.
parseSectionHeader(rline) ==
    The({The({IF line = << >> THEN << << >>, << >>, TRUE>>
              ELSE IF wsp = 0 THEN <<line, << >>, FALSE>>
              ELSE <<SubSeq(line, 1, wsp - 1),
                     TrimSuffix(TrimPrefix(
                         ReplaceAll(SubSeq(line, wsp + 1, Len(line)), <<"\\">>, << >>),
                         <<"\"">>), <<"\"">>),
                     FALSE>>
              : wsp \in {Index(line, " ")}})
         : line \in {Trim(rline, {"[", "]"})}})

\* splitValueComment returns <<value, comment>>.
splitValueComment(rValue) ==
    LET at == IndexAny(rValue, {"#", ";"})
    IN IF ~ContainsAny(rValue, {"#", ";"})
       THEN <<Trim(rValue, {"\""}), << >> >>
       ELSE IF ~reQuotedComment(rValue)
            THEN <<Trim(TrimSpace(SubSeq(rValue, 1, at - 1)), {"\""}),
                   <<" ">> \o SubSeq(rValue, at, Len(rValue))>>
            ELSE parseLineForComment(rValue)

\* the backspace character, which a TLA+ string cannot spell
Backspace == "BS"

unescapeValue(value) ==
    ReplaceAll(ReplaceAll(ReplaceAll(ReplaceAll(ReplaceAll(value,
        S("\\\\"), S("\\")),
        S("\\\""), S("\"")),
        S("\\n"), S("\n")),
        S("\\t"), S("\t")),
        S("\\b"), <<Backspace>>)

\* The index: a function from keys to value lists.  with(vars, k, vs) is the
\* Go assignment vars[k] = vs.
with(vars, k, vs) == [x \in DOMAIN vars \cup {k} |-> IF x = k THEN vs ELSE vars[x]]
without(vars, k)  == [x \in DOMAIN vars \ {k} |-> vars[x]]
valuesOf(vars, k) == IF k \in DOMAIN vars THEN vars[k] ELSE << >>

\* The three parseFunc callbacks.  Each gets the parser's accumulator (the
\* lines so far, the last being fullLine, and what the closure captured) and
\* returns it with the last line replaced or removed.
setLast(lines, l) == [lines EXCEPT ![Len(lines)] = l]

\* ParseConfig's callback: index the value, re-format the line
cbLoad(acc, fKey, k, v, comment) ==
    LET fk == canonicalizeKey(fKey)
    IN [acc EXCEPT !.vars  = with(@, fk, Append(valuesOf(@, fk), v)),
                   !.lines = setLast(@, formatKeyValue(k, v, comment))]

\* Set's callback: rewrite the first matching line only
cbSet(acc, sKey, value, comment) ==
    IF acc.updated THEN acc
    ELSE [acc EXCEPT !.updated = TRUE,
                     !.lines   = setLast(@, formatKeyValue(sKey, value, comment))]

\* Unset's callback: skip (delete) every matching line
cbUnset(acc) == [acc EXCEPT !.lines = SubSeq(@, 1, Len(@) - 1)]

\* One iteration of parseConfig's scan loop.  mode is "load" (key empty),
\* "set" or "unset" and selects the callback.
parseLine(acc, fullLine, key, value, mode) ==
    The({The({The({
        LET kept     == [acc EXCEPT !.lines = Append(@, fullLine)]
            isHeader == HasPrefix(line, <<"[">>)
            ctx      == IF isHeader
                        THEN [kept EXCEPT !.section = hdr[1], !.subsection = hdr[2]]
                        ELSE kept
            found    == cut[3] \/ (~isHeader /\ line # << >>)
            fKey     == ctx.section \o <<".">>
                        \o (IF ctx.subsection # << >> THEN ctx.subsection \o <<".">>
                            ELSE << >>)
                        \o k
            wKey     == IF key = << >> THEN ok ELSE w[3]
            oValue   == IF CompatMode THEN vc[1] ELSE unescapeValue(vc[1])
        IN IF HasPrefix(line, <<"#">>) \/ HasPrefix(line, <<";">>) THEN kept
           ELSE IF isHeader /\ hdr[3] THEN kept
           ELSE IF key # << >> /\ ctx.section # w[1] /\ ctx.subsection # w[2] THEN ctx
           ELSE IF ~found THEN ctx
           ELSE IF ~reValidKey(k) THEN ctx
           ELSE IF key # << >> /\ key # fKey THEN ctx
           ELSE CASE mode = "load"  -> cbLoad(ctx, fKey, wKey, oValue, vc[2])
                  [] mode = "set"   -> cbSet(ctx, wKey, value, vc[2])
                  [] mode = "unset" -> cbUnset(ctx)
        : k \in {ToLower(ok)}})
        : hdr \in {parseSectionHeader(line)},
          ok  \in {TrimSpace(cut[1])},
          vc  \in {splitValueComment(TrimSpace(cut[2]))}})
        : w \in {splitKey(key)}, line \in {TrimSpace(fullLine)},
          cut \in {Cut(TrimSpace(fullLine), "=")}})

RECURSIVE parseFrom(_, _, _, _, _, _)
parseFrom(acc, lines, i, key, value, mode) ==
    IF i > Len(lines) THEN acc
    ELSE The({parseFrom(n, lines, i + 1, key, value, mode)
              : n \in {parseLine(acc, lines[i], key, value, mode)}})

\* parseConfig: the output lines, and what the callback collected (vars)
parseConfig(text, key, value, mode) ==
    The({parseFrom([lines |-> << >>, section |-> << >>, subsection |-> << >>,
                    vars |-> << >>, updated |-> FALSE],
                   ls, 1, key, value, mode)
         : ls \in {ScanLines(text)}})

\* strings.Join(lines, "\n") + "\n", as written into Config.raw
rawOf(lines) == JoinLines(lines) \o <<"\n">>

(***************************************************************************)
(* Go's path package (path/filepath behaves the same on Unix)              *)
(***************************************************************************)
\* strings.Split(s, c): the fields of s between the separators c
SplitOn(s, c) ==
    LET at     == {i \in 1..Len(s) : s[i] = c}
        starts == SortedSeq({1} \cup {j + 1 : j \in at})
        stop(b) == LET after == {j \in at : j >= b}
                   IN IF after = {} THEN Len(s) ELSE Min(after) - 1
    IN [n \in 1..Len(starts) |-> SubSeq(s, starts[n], stop(starts[n]))]

RECURSIVE JoinWith(_, _)
JoinWith(parts, sep) == IF Len(parts) = 0 THEN << >>
                        ELSE IF Len(parts) = 1 THEN parts[1]
                        ELSE parts[1] \o sep \o JoinWith(Tail(parts), sep)

IsAbs(p) == HasPrefix(p, <<"/">>)

\* the element stack path.Clean builds: "." and empty elements are dropped,
\* ".." pops an element, is dropped at the root and kept in a relative path
RECURSIVE cleanElems(_, _, _)
cleanElems(elems, out, rooted) ==
    IF Len(elems) = 0 THEN out
    ELSE The({cleanElems(rest, o, rooted)
              : rest \in {Tail(elems)},
                o \in {The({IF e = << >> \/ e = <<".">> THEN out
                            ELSE IF e = S("..")
                                 THEN IF Len(out) > 0 /\ out[Len(out)] # S("..")
                                      THEN SubSeq(out, 1, Len(out) - 1)
                                      ELSE IF rooted THEN out
                                      ELSE Append(out, e)
                                 ELSE Append(out, e)
                            : e \in {Head(elems)}})}})

Clean(p) ==
    The({IF out = << >> THEN <<".">> ELSE out
         : out \in {(IF IsAbs(p) THEN <<"/">> ELSE << >>)
                    \o JoinWith(cleanElems(SplitOn(p, "/"), << >>, IsAbs(p)), <<"/">>)}})

\* path.Join(a, b): empty elements are ignored, the result is cleaned
Join(a, b) == The({IF x = << >> /\ y = << >> THEN << >>
                   ELSE IF x = << >> THEN Clean(y)
                   ELSE IF y = << >> THEN Clean(x)
                   ELSE Clean(x \o <<"/">> \o y)
                   : x \in {a}, y \in {b}})

\* path.Dir(p): everything up to the last slash, cleaned
Dir(p) == Clean(SubSeq(p, 1, LastIndex(p, "/")))

(***************************************************************************)
(* The file system: a function from the clean absolute paths of the        *)
(* regular files to their contents.  A path names a directory when a file  *)
(* lies below it.  Relative paths resolve against the process's working    *)
(* directory Cwd.                                                          *)
(***************************************************************************)
Cwd == S("/w")

resolve(p) == IF IsAbs(p) THEN Clean(p) ELSE Clean(Cwd \o <<"/">> \o p)

isFile(fs0, p) == p # << >> /\ resolve(p) \in DOMAIN fs0
isDir(fs0, p)  == /\ p # << >>
                 /\ \E d \in {resolve(p)} : \E f \in DOMAIN fs0 :
                       \/ d = <<"/">>
                       \/ HasPrefix(f, d \o <<"/">>)

\* the environment variable HOME: <<set, value>>
HomeEnv == <<TRUE, S("/h")>>

(***************************************************************************)
(* config.go: Config                                                       *)
(***************************************************************************)
\* &Config{}: the zero value; vars is nil (varsNil) until something makes it
ZeroConfig == [path |-> << >>, readonly |-> FALSE, noWrites |-> FALSE,
               raw |-> << >>, vars |-> << >>, varsNil |-> TRUE, branch |-> << >>]

IsEmpty(c) == IF c.varsNil THEN TRUE ELSE ~(Len(c.raw) > 0)

\* Get returns <<value, found>>
Get(c, key) ==
    The({IF k \notin DOMAIN c.vars \/ Len(c.vars[k]) < 1 THEN << << >>, FALSE>>
         ELSE <<c.vars[k][1], TRUE>>
         : k \in {canonicalizeKey(key)}})

\* GetAll returns <<values, found>>
GetAll(c, key) ==
    The({IF k \notin DOMAIN c.vars THEN << << >>, FALSE>> ELSE <<c.vars[k], TRUE>>
         : k \in {canonicalizeKey(key)}})

IsSet(c, key) == canonicalizeKey(key) \in DOMAIN c.vars

\* Go error values.  An error is nil (NoError) or one error value, which
\* has a message and may wrap another error (the verb %w of fmt.Errorf).
NoError == << >>
errorf(msg, wrapped) == <<[msg |-> msg, wraps |-> wrapped]>>

\* the error the operating system gives a failed call
osError(call0) == errorf(S(call0), NoError)

\* errors.Is(e, target): e or an error in the chain e wraps is target
RECURSIVE errorsIs(_, _)
errorsIs(e, target) ==
    /\ e # NoError
    /\ (e = target \/ errorsIs(e[1].wraps, target))

\* the exported error a caller is to detect an invalid key by
ErrInvalidKey == errorf(S("invalid key"), NoError)

\* flushRaw returns [fs, error]: the file system after the write, and the
\* error: os.MkdirAll fails when a file is in the way of the directory,
\* os.WriteFile when the path names a directory
flushRaw(c, fs0) ==
    IF c.noWrites \/ c.path = << >> THEN [fs |-> fs0, error |-> NoError]
    ELSE The({IF \E f \in DOMAIN fs0 : HasPrefix(p, f \o <<"/">>)
              THEN [fs |-> fs0,
                    error |-> errorf(S("failed to create directory for ") \o c.path,
                                     osError("mkdir"))]
              ELSE IF \E f \in DOMAIN fs0 : HasPrefix(f, p \o <<"/">>)
              THEN [fs |-> fs0,
                    error |-> errorf(S("failed to write config to ") \o c.path,
                                     osError("open"))]
              ELSE [fs |-> with(fs0, p, c.raw), error |-> NoError]
              : p \in {resolve(c.path)}})

\* an operation's outcome: the Config and the file system after it, the
\* error it returned, and whether that is an error (err != nil)
outcome(c, fs0, e) == [c |-> c, fs |-> fs0, err |-> e # NoError, error |-> e]

\* rewriteRaw with Set's callback (mode "set") or Unset's (mode "unset")
rewriteRaw(c, key, value, mode, fs0) ==
    The({The({outcome(c2, w.fs, w.error) : w \in {flushRaw(c2, fs0)}})
         : c2 \in {[c EXCEPT !.raw = rawOf(parseConfig(c.raw, key, value, mode).lines)]}})

\* One iteration of insertValue's scan loop
insertLine(acc, line, w, value) ==
    The({LET kept     == [acc EXCEPT !.lines = Append(@, line)]
             isHeader == HasPrefix(line, <<"[">>)
             ctx      == IF isHeader
                         THEN [kept EXCEPT !.section = hdr[1], !.subsection = hdr[2]]
                         ELSE kept
         IN IF acc.written THEN kept
            ELSE IF HasPrefix(line, <<"#">>) \/ HasPrefix(line, <<";">>) THEN kept
            ELSE IF isHeader /\ hdr[3] THEN kept
            ELSE IF ctx.section # w[1] THEN ctx
            ELSE IF ctx.subsection # w[2] THEN ctx
            ELSE [ctx EXCEPT !.lines   = Append(@, formatKeyValue(w[3], value, << >>)),
                             !.written = TRUE]
         : hdr \in {parseSectionHeader(line)}})

RECURSIVE insertFrom(_, _, _, _, _)
insertFrom(acc, lines, i, w, value) ==
    IF i > Len(lines) THEN acc
    ELSE The({insertFrom(n, lines, i + 1, w, value)
              : n \in {insertLine(acc, lines[i], w, value)}})

insertValue(c, key, value, fs0) ==
    The({The({The({The({outcome(c2, f.fs, f.error) : f \in {flushRaw(c2, fs0)}})
        : c2 \in {[c EXCEPT !.raw = rawOf(
                      IF scan.written THEN scan.lines
                      ELSE scan.lines
                           \o <<IF w[2] # << >>
                                THEN <<"[">> \o w[1] \o S(" \"") \o w[2] \o S("\"]")
                                ELSE <<"[">> \o w[1] \o <<"]">>,
                                formatKeyValue(w[3], value, << >>)>>)]}})
        : scan \in {insertFrom([lines |-> << >>, section |-> << >>,
                                subsection |-> << >>, written |-> FALSE],
                               ScanLines(c.raw), 1, w, value)}})
        : w \in {splitKey(key)}})

\* Set(key, value)
Set(c, key, value, fs0) ==
    The({LET made    == [c EXCEPT !.varsNil = FALSE]
             present == key \in DOMAIN c.vars
             vs      == IF present /\ Len(c.vars[key]) > 0
                        THEN [c.vars[key] EXCEPT ![1] = value]
                        ELSE <<value>>
             stored  == [made EXCEPT !.vars = with(@, key, vs)]
         IN IF p[1] = << >> \/ p[3] = << >> THEN outcome(c, fs0, errorf(S("invalid key: ") \o key, NoError))
            ELSE IF c.readonly THEN outcome(c, fs0, NoError)
            ELSE IF present /\ value \in Range(c.vars[key]) THEN outcome(made, fs0, NoError)
            ELSE IF ~present THEN insertValue(stored, key, value, fs0)
            ELSE rewriteRaw(stored, key, value, "set", fs0)
         : p \in {splitKey(key)}})

\* Unset(key)
Unset(c, key0, fs0) ==
    The({IF c.readonly THEN outcome(c, fs0, NoError)
         ELSE IF key \notin DOMAIN c.vars THEN outcome(c, fs0, NoError)
         ELSE rewriteRaw([c EXCEPT !.vars = without(@, key)], key, << >>, "unset", fs0)
         : key \in {canonicalizeKey(key0)}})

\* ParseConfig(r), r a reader over text
ParseConfig(text) ==
    The({[ZeroConfig EXCEPT !.vars = r.vars, !.varsNil = FALSE, !.raw = rawOf(r.lines)]
         : r \in {parseConfig(text, << >>, << >>, "load")}})

\* NewFromMap(data)
NewFromMap(data) ==
    [ZeroConfig EXCEPT !.readonly = TRUE, !.varsNil = FALSE,
                       !.vars = [k \in DOMAIN data |-> <<data[k]>>]]

(***************************************************************************)
(* utils.go: globMatch.  The pattern language of the glob library, as the  *)
(* comment of globMatch documents it: "*" within a path component, "**"    *)
(* across components, "?" one character, [abc] / [a-z] / [!a] classes.     *)
(* An unterminated class does not compile.                                 *)
(***************************************************************************)
charRank(c) == IF IsLower(c) THEN CHOOSE i \in DOMAIN LowerChars : LowerChars[i] = c
               ELSE IF IsUpper(c) THEN CHOOSE i \in DOMAIN UpperChars : UpperChars[i] = c
               ELSE IF IsDigit(c) THEN CHOOSE i \in DOMAIN DigitChars : DigitChars[i] = c
               ELSE 0
sameKind(a, b) == \/ IsLower(a) /\ IsLower(b)
                  \/ IsUpper(a) /\ IsUpper(b)
                  \/ IsDigit(a) /\ IsDigit(b)

\* whether character c is in the class body (the text between [ and ])
inClass(body, c) ==
    LET neg   == HasPrefix(body, <<"!">>)
        items == IF neg THEN Tail(body) ELSE body
        hit   == \E i \in 1..Len(items) :
                    \/ /\ items[i] = c
                    \/ /\ i + 2 <= Len(items)
                       /\ items[i + 1] = "-"
                       /\ sameKind(items[i], c) /\ sameKind(items[i + 2], c)
                       /\ charRank(items[i]) <= charRank(c)
                       /\ charRank(c) <= charRank(items[i + 2])
    IN IF neg THEN ~hit ELSE hit

RECURSIVE globCompiles(_)
globCompiles(p) ==
    IF p = << >> THEN TRUE
    ELSE IF p[1] = "[" THEN /\ Index(p, "]") # 0
                            /\ globCompiles(SubSeq(p, Index(p, "]") + 1, Len(p)))
    ELSE globCompiles(Tail(p))

RECURSIVE globRun(_, _)
globRun(p, s) ==
    IF p = << >> THEN s = << >>
    ELSE IF HasPrefix(p, S("**"))
         THEN \E k \in 0..Len(s) : globRun(SubSeq(p, 3, Len(p)), SubSeq(s, k + 1, Len(s)))
    ELSE IF p[1] = "*"
         THEN \E k \in 0..Len(s) : /\ \A j \in 1..k : s[j] # "/"
                                   /\ globRun(Tail(p), SubSeq(s, k + 1, Len(s)))
    ELSE IF p[1] = "?"
         THEN s # << >> /\ s[1] # "/" /\ globRun(Tail(p), Tail(s))
    ELSE IF p[1] = "["
         THEN /\ s # << >>
              /\ inClass(SubSeq(p, 2, Index(p, "]") - 1), s[1])
              /\ globRun(SubSeq(p, Index(p, "]") + 1, Len(p)), Tail(s))
    ELSE s # << >> /\ s[1] = p[1] /\ globRun(Tail(p), Tail(s))

\* globMatch returns <<match, err>>
globMatch(pattern, s) ==
    IF ~globCompiles(pattern) THEN <<FALSE, TRUE>> ELSE <<globRun(pattern, s), FALSE>>

(***************************************************************************)
(* config.go: loading with includes                                        *)
(***************************************************************************)
\* readGitBranch(workdir): the branch named by workdir/.git/HEAD, or ""
readGitBranch(workdir, fs0) ==
    IF workdir = << >> THEN << >>
    ELSE The({IF h \notin DOMAIN fs0 THEN << >>
              ELSE IF HasPrefix(fs0[h], S("ref: refs/heads/"))
                   THEN TrimSpace(TrimPrefix(fs0[h], S("ref: refs/heads/")))
                   ELSE << >>
              : h \in {resolve(Join(Join(workdir, S(".git")), S("HEAD")))}})

prefixMatch(path, prefix, fold) ==
    IF ~HasSuffix(prefix, <<"/">>) THEN FALSE
    ELSE IF fold THEN HasPrefix(ToLower(path), ToLower(prefix))
    ELSE HasPrefix(path, prefix)

\* matchSubSection returns "match", "nomatch", or "panic" where the Go code
\* indexes past the end of a slice (p[1] of a one-element SplitN result)
matchSubSection(subsec, workdir, c) ==
    The({LET caseInsensitive == Contains(subsec, S("/i:"))
             exactMatch == IF caseInsensitive
                           THEN EqualFold(TrimSuffix(workdir, <<"/">>),
                                          TrimSuffix(rest, <<"/">>))
                           ELSE TrimSuffix(workdir, <<"/">>) = TrimSuffix(rest, <<"/">>)
         IN IF HasPrefix(subsec, S("gitdir"))
            THEN IF colon = 0 THEN "panic"
                 ELSE IF exactMatch \/ prefixMatch(rest, workdir, caseInsensitive)
                      THEN "match"
                 ELSE "nomatch"
            ELSE IF HasPrefix(subsec, S("onbranch:"))
            THEN IF c.branch = << >> THEN "nomatch"
                 ELSE The({IF g[2] THEN "nomatch"
                           ELSE IF g[1] THEN "match"
                           ELSE "nomatch"
                           : g \in {globMatch(rest, c.branch)}})
            ELSE "nomatch"
         : colon \in {Index(subsec, ":")},
           rest  \in {SubSeq(subsec, Index(subsec, ":") + 1, Len(subsec))}})

\* filterCandidates, on the set of candidate keys: the keys kept, and
\* whether evaluating a candidate panics
validCandidate(p) == p[1] = S("includeif") /\ p[2] # << >> /\ p[3] = S("path")
filterCandidates(candidates, workdir, c) ==
    The({[keep  |-> {k \in candidates : m[k] = "match"},
          panic |-> \E k \in candidates : m[k] = "panic"]
         : m \in {[k \in candidates |->
                     The({IF validCandidate(p) THEN matchSubSection(p[2], workdir, c)
                          ELSE "nomatch"
                          : p \in {splitKey(k)}})]}})

\* every order in which Go may iterate over the keys of a map
RECURSIVE Perms(_)
Perms(K) == IF K = {} THEN {<< >>}
            ELSE UNION {{<<k>> \o q : q \in Perms(K \ {k})} : k \in K}

RECURSIVE concatValues(_, _)
concatValues(c, keys) == IF keys = << >> THEN << >>
                         ELSE GetAll(c, Head(keys))[1] \o concatValues(c, Tail(keys))

\* getConditionalIncludes: the candidates are collected by ranging over the
\* map c.vars, so their order is any order; outs is the set of path lists
\* the function can return
getConditionalIncludes(c, workdir) ==
    The({[panic |-> f.panic,
          outs  |-> {concatValues(c, order) : order \in Perms(f.keep)}]
         : f \in {filterCandidates(
                     {k \in DOMAIN c.vars :
                         HasPrefix(k, S("includeif.")) /\ HasSuffix(k, S(".path"))},
                     workdir, c)}})

\* getEffectiveIncludes: the set of <<includePaths, includeExists>> it can return
getEffectiveIncludes(c, workdir) ==
    The({[panic |-> cond.panic,
          outs  |-> {IF Len(ci) > 0 THEN <<inc[1] \o ci, TRUE>> ELSE inc
                     : ci \in cond.outs}]
         : inc  \in {GetAll(c, S("include.path"))},
           cond \in {getConditionalIncludes(c, workdir)}})

\* getPathsForNestedConfig
nestedPath(nc, baseConfig) ==
    IF IsAbs(nc) THEN <<nc>>
    ELSE IF HasPrefix(nc, S("~/"))
         THEN IF ~HomeEnv[1] THEN << >>
              ELSE <<Join(HomeEnv[2], ReplaceFirst(nc, S("~/"), << >>))>>
    ELSE <<Clean(Join(Dir(baseConfig), nc))>>

RECURSIVE getPathsForNestedConfig(_, _)
getPathsForNestedConfig(nestedConfigs, baseConfig) ==
    IF nestedConfigs = << >> THEN << >>
    ELSE nestedPath(Head(nestedConfigs), baseConfig)
         \o getPathsForNestedConfig(Tail(nestedConfigs), baseConfig)

\* loadConfig returns [err, c]; opening a directory succeeds and reads nothing
loadConfig(fn, fs0) ==
    IF ~isFile(fs0, fn) /\ ~isDir(fs0, fn) THEN [err |-> TRUE, c |-> ZeroConfig]
    ELSE [err |-> FALSE,
          c   |-> [ParseConfig(IF isFile(fs0, fn) THEN fs0[resolve(fn)] ELSE << >>)
                   EXCEPT !.path = fn]]

\* a merge that would also take over the extension's text
mergeConfigsWithText(base, extension) ==
    [ZeroConfig EXCEPT
        !.path = base.path, !.readonly = base.readonly, !.noWrites = base.noWrites,
        !.varsNil = FALSE,
        !.raw  = base.raw \o extension.raw,
        !.vars = [k \in DOMAIN base.vars \cup DOMAIN extension.vars |->
                     valuesOf(base.vars, k) \o valuesOf(extension.vars, k)]]

mergeConfigs(base, extension) ==
    [ZeroConfig EXCEPT
        !.path = base.path, !.readonly = base.readonly, !.noWrites = base.noWrites,
        !.varsNil = FALSE,
        !.raw  = base.raw,
        !.vars = [k \in DOMAIN base.vars \cup DOMAIN extension.vars |->
                     valuesOf(base.vars, k) \o valuesOf(extension.vars, k)]]

\* The state of loadConfigs: status is "loading" while the loop runs, then
\* "ok" (a Config is returned), "err" (an error is) or "panic".
loaderState(status, c, loaded, queue) ==
    [status |-> status, c |-> c, loaded |-> loaded, queue |-> queue]
loaderFailed(status) == loaderState(status, ZeroConfig, {}, << >>)

\* what loadConfigs does with a file it has read: the includes of the
\* file's Config c are resolved against baseConfig and appended to the queue
enqueue(status, c, loaded, queue, inc, baseConfig) ==
    IF inc.panic THEN {loaderFailed("panic")}
    ELSE {loaderState(status, c, loaded,
                      queue \o (IF i[2] THEN getPathsForNestedConfig(i[1], baseConfig)
                                ELSE << >>))
          : i \in inc.outs}

\* loadConfigs up to the loop: the states it can enter the loop in
loadStart(fn, workdir, fs0) ==
    UNION {IF l.err THEN {loaderFailed("err")}
           ELSE UNION {enqueue("loading", c, {fn}, << >>,
                               getEffectiveIncludes(c, workdir), fn)
                       : c \in {[l.c EXCEPT !.path = fn,
                                            !.branch = readGitBranch(workdir, fs0)]}}
           : l \in {loadConfig(fn, fs0)}}

\* one iteration of the loop (the queue is not empty)
loadIter(st, workdir, fs0) ==
    IF Head(st.queue) \in st.loaded THEN {[st EXCEPT !.queue = Tail(@)]}
    ELSE UNION {IF l.err THEN {loaderFailed("err")}
                ELSE enqueue("loading", mergeConfigs(st.c, l.c),
                             st.loaded \cup {Head(st.queue)}, Tail(st.queue),
                             getEffectiveIncludes(l.c, workdir), l.c.path)
                : l \in {loadConfig(Head(st.queue), fs0)}}

\* the loop's exit: return c, nil
loadDone(st) == [st EXCEPT !.status = "ok"]

RECURSIVE loadLoop(_, _, _)
loadLoop(st, workdir, fs0) ==
    IF st.status # "loading" THEN {st}
    ELSE IF st.queue = << >> THEN {loadDone(st)}
    ELSE UNION {loadLoop(n, workdir, fs0) : n \in loadIter(st, workdir, fs0)}

\* loadConfigs(fn, workdir): the set of results it can end with
loadConfigs(fn, workdir, fs0) ==
    UNION {loadLoop(st, workdir, fs0) : st \in loadStart(fn, workdir, fs0)}

(***************************************************************************)
(* State.  Three specifications share it: Spec drives one Config           *)
(* (construction, then Set and Unset), SpecInc runs loadConfigs one loop   *)
(* iteration at a time, SpecScopes drives a Configs.                       *)
(***************************************************************************)
VARIABLES
    fs,     \* the files on disk
    cfg,    \* the Config
    origin, \* how cfg was constructed, and whether a Set/Unset on it failed
    last,   \* the last operation: its name, arguments and result, and the
            \* object and file system it started from
    nops,   \* the number of mutating calls made
    ld,     \* loadConfigs in progress: its loop state
    call,   \* the arguments of the loadConfigs call in progress
    cs,     \* the Configs
    environ \* the environment variables of the process

vars == <<fs, cfg, origin, last, nops, ld, call, cs, environ>>

\* the number of Set/Unset calls explored
MaxOps == 2

NoOp == [op |-> "none", key |-> << >>, value |-> << >>, err |-> FALSE,
         error |-> NoError, pre |-> ZeroConfig, prefs |-> << >>]
NoOrigin == [op |-> "none", arg |-> << >>, failed |-> FALSE]
NoCall == [fn |-> << >>, workdir |-> << >>]

(***************************************************************************)
(* Spec: one Config.                                                       *)
(***************************************************************************)
\* The files Spec starts with.
Disk ==
       (S("/w/config")     :> S("[core]\n\tint = 7\n  [include]\n    path = foo.config"))
    @@ (S("/w/foo.config") :> S("[core]\n\tint = 8\n\tinc = x\n[include]\n\tpath = config\n\tpath = /w/bar.config\n"))
    @@ (S("/w/bar.config") :> S("[core]\n\tint = 9\n"))
    @@ (S("/w/plain")      :> S("# head\n[core]\n\tfoo = a\n\tfoo = b ; two\n\tfoo = c\n"))
    @@ (S("/w/upper")      :> S("[Core]\n\tFoo = a\n[Remote \"Origin\"]\n\tURL = u\n"))

\* the paths LoadConfig is called with
Roots == {S("/w/config"), S("/w/plain"), S("/w/upper"), S("/w/none")}

\* the texts ParseConfig is called with
Texts == {S(""), S("[core]\n\tfoo = a\n\tfoo = b\n\tfoo = c\n"),
          S("[Core]\n\tfoo = a\n\tfoo = b\n\tfoo = c\n"),
          S("; c\n\n[core]\n\tfoo = \"a b\"\n[other]\n\tint = x\n"),
          S("[core]\n\tfoo = a\n[other]\n\tint = x\n[core]\n\tint = 7\n"),
          S("top = t\n[core]\n\tfoo = a\n"),
          S("[core]\n\tfoo = \"a # b\" ; c\n\tint = x \"y # z\"\n")}

\* the maps NewFromMap is called with
Maps == {(S("core.foo") :> S("p")) @@ (S("core.pre") :> S("q")),
         (S("User.Name") :> S("n"))}

\* the keys and values Set and Unset are called with
Keys == {S("core.foo"), S("Core.Foo"), S("core.int"), S("core.inc"),
         S("remote.Origin.url"), S("nosection")}
Values == {S("d"), S("b"), S("")}

Init == /\ fs = Disk
        /\ cfg = ZeroConfig
        /\ origin = NoOrigin
        /\ last = NoOp
        /\ nops = 0
        /\ ld = loaderFailed("idle")
        /\ call = NoCall
        /\ cs = << >>
        /\ environ = << >>

done(op, key, value, e) ==
    [op |-> op, key |-> key, value |-> value, err |-> e # NoError, error |-> e,
     pre |-> cfg, prefs |-> fs]

\* cfg, err := LoadConfig(fn)
LoadConfigOp ==
    /\ last.op = "none"
    /\ \E fn \in Roots : \E r \in loadConfigs(fn, << >>, fs) :
          /\ cfg' = IF r.status = "ok" THEN r.c ELSE cfg
          /\ origin' = [op |-> IF r.status = "ok" THEN "load" ELSE "loadfail",
                        arg |-> fn, failed |-> FALSE]
          /\ last' = done(origin'.op, fn, << >>,
                           IF r.status = "ok" THEN NoError ELSE osError("open"))
    /\ UNCHANGED <<environ, fs, nops, ld, call, cs>>

\* cfg := ParseConfig(strings.NewReader(text))
ParseConfigOp ==
    /\ last.op = "none"
    /\ \E text \in Texts :
          /\ cfg' = ParseConfig(text)
          /\ origin' = [op |-> "parse", arg |-> text, failed |-> FALSE]
          /\ last' = done("parse", << >>, text, NoError)
    /\ UNCHANGED <<environ, fs, nops, ld, call, cs>>

\* cfg := &Config{noWrites: true}
NewConfigOp ==
    /\ last.op = "none"
    /\ cfg' = [ZeroConfig EXCEPT !.noWrites = TRUE]
    /\ origin' = [op |-> "new", arg |-> << >>, failed |-> FALSE]
    /\ last' = done("new", << >>, << >>, NoError)
    /\ UNCHANGED <<environ, fs, nops, ld, call, cs>>

\* cfg := NewFromMap(data)
NewFromMapOp ==
    /\ last.op = "none"
    /\ \E data \in Maps :
          /\ cfg' = NewFromMap(data)
          /\ origin' = [op |-> "map", arg |-> << >>, failed |-> FALSE]
          /\ last' = done("map", << >>, << >>, NoError)
    /\ UNCHANGED <<environ, fs, nops, ld, call, cs>>

constructed == origin.op \in {"load", "parse", "new", "map"}

\* err := cfg.Set(key, value)
SetOp ==
    /\ constructed
    /\ nops < MaxOps
    /\ \E key \in Keys, value \in Values : \E r \in {Set(cfg, key, value, fs)} :
          /\ cfg' = r.c
          /\ fs' = r.fs
          /\ origin' = [origin EXCEPT !.failed = @ \/ r.err]
          /\ last' = done("set", key, value, r.error)
    /\ nops' = nops + 1
    /\ UNCHANGED <<environ, ld, call, cs>>

\* err := cfg.Unset(key)
UnsetOp ==
    /\ constructed
    /\ nops < MaxOps
    /\ \E key \in Keys : \E r \in {Unset(cfg, key, fs)} :
          /\ cfg' = r.c
          /\ fs' = r.fs
          /\ origin' = [origin EXCEPT !.failed = @ \/ r.err]
          /\ last' = done("unset", key, << >>, r.error)
    /\ nops' = nops + 1
    /\ UNCHANGED <<environ, ld, call, cs>>

Next == \/ LoadConfigOp
        \/ ParseConfigOp
        \/ NewConfigOp
        \/ NewFromMapOp
        \/ SetOp
        \/ UnsetOp

Spec == Init /\ [][Next]_vars

(***************************************************************************)
(* Properties of one Config (checked under Spec).                          *)
(***************************************************************************)
\* a key "that has a section and a final key segment"
wellFormed(key) == splitKey(key)[1] # << >> /\ splitKey(key)[3] # << >>

\* the values a text assigns to the canonical key ck, in the order of its lines
assigned(text, ck) == valuesOf(ParseConfig(text).vars, ck)

\* the number of values the first i of the lines assign to ck
assignedUpTo(lines, i, ck) == Len(assigned(JoinLines(SubSeq(lines, 1, i)), ck))

\* the lines of a text that assign ck: each adds a value to what the lines
\* before it assign
assigningLines(lines, ck) ==
    {i \in 1..Len(lines) : assignedUpTo(lines, i, ck) > assignedUpTo(lines, i - 1, ck)}

\* the Config was made from one source that has no include directives
singleSource ==
    \/ origin.op = "parse"
    \/ /\ origin.op = "load"
       /\ \A k \in DOMAIN loadConfig(origin.arg, Disk).c.vars :
             ~HasPrefix(k, S("include.")) /\ ~HasPrefix(k, S("includeif."))

\* C1: read-after-write.  On a writable Config, whenever Set(k, v) of a
\* well-formed key k (in any letter case) has returned success, Get(k) right
\* after it returns (v, true).
C1_ReadAfterWrite ==
    (last.op = "set" /\ ~last.err /\ ~last.pre.readonly /\ wellFormed(last.key))
        => Get(cfg, last.key) = <<last.value, TRUE>>

\* Set("Core.Foo", "d") on the Config parsed from the empty text succeeded
\* and Get("Core.Foo") finds nothing
C1_SetThenGetMisses ==
    /\ origin.op = "parse" /\ origin.arg = << >>
    /\ last.op = "set" /\ ~last.err /\ last.key = S("Core.Foo") /\ last.value = S("d")
    /\ nops = 1
    /\ Get(cfg, last.key) = << << >>, FALSE>>

\* C2: text/index coherence.  For a Config made from a single source without
\* include directives, after any sequence of successful Set and Unset calls
\* parsing the Config's text from scratch yields exactly the Config's index.
C2_TextIndexCoherence ==
    (singleSource /\ ~origin.failed) => ParseConfig(cfg.raw).vars = cfg.vars

\* /w/upper was loaded, Set("core.foo", "d") succeeded, the index says d and
\* the text still says a
C2_IndexAheadOfText ==
    /\ origin.op = "load" /\ origin.arg = S("/w/upper") /\ nops = 1
    /\ last.op = "set" /\ ~last.err /\ last.key = S("core.foo") /\ last.value = S("d")
    /\ cfg.vars[S("core.foo")] = <<S("d")>>
    /\ assigned(cfg.raw, S("core.foo")) = <<S("a")>>

\* C3: persistence.  For a Config loaded from a file by LoadConfig (writable,
\* persisting, with or without includes), after Set(k, v) has returned
\* success, loading the same file again yields a Config whose Get(k) returns
\* (v, true).
C3_Persistence ==
    (origin.op = "load" /\ last.op = "set" /\ ~last.err
                        /\ ~cfg.readonly /\ ~cfg.noWrites)
        => \A r \in loadConfigs(origin.arg, << >>, fs) :
              r.status = "ok" /\ Get(r.c, last.key) = <<last.value, TRUE>>

\* /w/config was loaded (core.inc comes from its include foo.config),
\* Set("core.inc", "d") succeeded, and a fresh load still reads x
C3_SetLostOnReload ==
    /\ origin.op = "load" /\ origin.arg = S("/w/config") /\ nops = 1
    /\ last.op = "set" /\ ~last.err /\ last.key = S("core.inc") /\ last.value = S("d")
    /\ Get(cfg, last.key) = <<S("d"), TRUE>>
    /\ \A r \in loadConfigs(origin.arg, << >>, fs) :
          r.status = "ok" /\ Get(r.c, last.key) = <<S("x"), TRUE>>

\* the lines of a text
linesOf(text) == Range(ScanLines(text))

\* new is old with exactly line i replaced by another line
rewrittenOnlyAt(old, new, i) ==
    /\ Len(new) = Len(old)
    /\ \A j \in 1..Len(old) : (new[j] = old[j]) <=> (j # i)

\* C4: multi-value ordering.  If the text assigns key k several times, with
\* values a, b, c in that order, GetAll(k) returns [a, b, c]; after Set(k, d)
\* with a value d not among them GetAll(k) returns [d, b, c], and only the
\* first line that assigns k is rewritten, all other lines staying as they
\* were.
C4_MultiValueOrdering ==
    \A ck \in {canonicalizeKey(last.key)} : \A before \in {assigned(last.pre.raw, ck)} :
        (/\ last.op = "set" /\ ~last.err /\ ck # << >>
         /\ ParseConfig(last.pre.raw).vars = last.pre.vars
         /\ Len(before) >= 2
         /\ last.value \notin Range(before))
            => /\ GetAll(last.pre, last.key) = <<before, TRUE>>
               /\ GetAll(cfg, last.key) = <<[before EXCEPT ![1] = last.value], TRUE>>
               /\ \A old \in {ScanLines(last.pre.raw)} :
                     rewrittenOnlyAt(old, ScanLines(cfg.raw),
                                     Min(assigningLines(old, ck)))

\* the text "[Core] foo = a, foo = b, foo = c" was parsed, Set("core.foo",
\* "d") succeeded, and no line of the text was rewritten
C4_NoLineRewritten ==
    /\ origin.op = "parse" /\ origin.arg = S("[Core]\n\tfoo = a\n\tfoo = b\n\tfoo = c\n")
    /\ nops = 1
    /\ last.op = "set" /\ ~last.err /\ last.key = S("core.foo") /\ last.value = S("d")
    /\ GetAll(last.pre, last.key) = << <<S("a"), S("b"), S("c")>>, TRUE>>
    /\ GetAll(cfg, last.key) = << <<S("d"), S("b"), S("c")>>, TRUE>>
    /\ cfg.raw = last.pre.raw

\* the text of the root file as a Config parsed from that file alone holds it
rootText(fn) == loadConfig(fn, Disk).c.raw

\* the lines that only the files included by root fn have: the lines of
\* every other file the load has read, as they are on disk and as a Config
\* parsed from the file holds them, except those the root's text has too
includedLines(fn) ==
    UNION {UNION {linesOf(Disk[resolve(p)]) \cup linesOf(rootText(p))
                  : p \in {q \in r.loaded \ {fn} : isFile(Disk, q)}}
           : r \in loadConfigs(fn, << >>, Disk)}
        \ linesOf(rootText(fn))

IncDisk ==
       (S("/w/config")     :> S("[core]\n\tint = 7\n  [include]\n    path = foo.config"))
    @@ (S("/w/foo.config") :> S("[core]\n\tint = 8\n\tinc = x\n[include]\n\tpath = config\n\tpath = /w/bar.config\n"))
    @@ (S("/w/bar.config") :> S("[core]\n\tint = 9\n"))
    @@ (S("/w/self")       :> S("[core]\n\tk = s\n[include]\n\tpath = self\n"))
    @@ (S("/w/order")      :> S("[includeIf \"gitdir:/w/\"]\n\tpath = a\n[include]\n\tpath = b\n[core]\n\tk = r\n"))
    @@ (S("/w/a")          :> S("[core]\n\tk = 1\n"))
    @@ (S("/w/b")          :> S("[core]\n\tk = 2\n"))
    @@ (S("/w/two")        :> S("[includeIf \"gitdir:/w/\"]\n\tpath = a\n[includeIf \"gitdir:/w\"]\n\tpath = b\n"))
    @@ (S("/w/bad")        :> S("[includeIf \"gitdir\"]\n\tpath = a\n"))
    @@ (S("/w/miss")       :> S("[core]\n\tk = m\n[include]\n\tpath = nothere\n"))
    @@ (S("/w/dup")        :> S("[include]\n\tpath = a\n\tpath = /w/./a\n[core]\n\tk = r\n"))
    @@ (S("/w/br")         :> S("[includeIf \"onbranch:main\"]\n\tpath = a\n"))
    @@ (S("/w/fold")       :> S("[includeIf \"gitdir/i:/W/\"]\n\tpath = a\n[includeIf \"gitdir:/w/sub/deep/\"]\n\tpath = b\n"))
    @@ (S("/w/nest")       :> S("[include]\n\tpath = nbr\n\tpath = two\n"))
    @@ (S("/w/nbr")        :> S("[includeIf \"onbranch:main\"]\n\tpath = bar.config\n"))
    @@ (S("/w/unsup")      :> S("[includeIf \"hasconfig:x\"]\n\tpath = a\n[includeIf \"onbranch:[\"]\n\tpath = b\n"))
    @@ (S("/w/nopat")      :> S("[includeIf \"gitdir:\"]\n\tpath = a\n"))
    @@ (S("/w/incdir")     :> S("[core]\n\tk = d\n[include]\n\tpath = .git\n"))
    @@ (S("/w/.git/HEAD")  :> S("ref: refs/heads/main\n"))

\* the root paths loadConfigs is called with, as the caller spells them
IncRoots == {S("/w/config"), S("config"), S("./config"), S("/w/self"), S("/w/order"),
             S("/w/two"), S("/w/bad"), S("/w/miss"), S("/w/dup"), S("/w/br"),
             S("/w/incdir"), S("/w/fold"), S("/w/nest"), S("/w/nbr"), S("/w/unsup"),
             S("/w/nopat"), S("/w/none")}

\* the working directories it is called with (LoadConfig passes "")
Workdirs == {<< >>, S("/w"), S("/w/sub"), S("/w/sub/")}

InitInc ==
    /\ fs = IncDisk
    /\ cfg = ZeroConfig
    /\ origin = NoOrigin
    /\ last = NoOp
    /\ nops = 0
    /\ ld = loaderFailed("idle")
    /\ call = NoCall
    /\ cs = << >>
    /\ environ = << >>

\* loadConfigs up to the loop: the root is read and its includes are queued
CallLoad ==
    /\ ld.status # "loading"
    /\ \E fn \in IncRoots, workdir \in Workdirs :
          /\ ld' \in loadStart(fn, workdir, fs)
          /\ call' = [fn |-> fn, workdir |-> workdir]
    /\ UNCHANGED <<environ, fs, cfg, origin, last, nops, cs>>

\* one iteration of "for len(configsToLoad) > 0"
LoopIter ==
    /\ ld.status = "loading"
    /\ ld.queue # << >>
    /\ ld' \in loadIter(ld, call.workdir, fs)
    /\ UNCHANGED <<environ, fs, cfg, origin, last, nops, call, cs>>

\* the loop ends and the aggregate is returned to the caller
LoopExit ==
    /\ ld.status = "loading"
    /\ ld.queue = << >>
    /\ ld' = loadDone(ld)
    /\ cfg' = ld.c
    /\ UNCHANGED <<environ, fs, origin, last, nops, call, cs>>

NextInc == CallLoad \/ LoopIter \/ LoopExit

\* a call that has started keeps running: the loop is sequential code
SpecInc == InitInc /\ [][NextInc]_vars /\ WF_vars(LoopIter) /\ WF_vars(LoopExit)

\* Every call of loadConfigs ends.  An iteration of the loop that does not
\* end the call either reads a file it had not read (loaded grows) or drops
\* the head of the queue (loaded stays, the queue gets shorter); the paths
\* that can be read are finitely many, so no run iterates forever.
LoadProgress ==
    [][(ld.status = "loading" /\ ld'.status = "loading")
          => \/ ld.loaded \subseteq ld'.loaded /\ ld.loaded # ld'.loaded
             \/ ld'.loaded = ld.loaded /\ Len(ld'.queue) < Len(ld.queue)]_vars

\* the loop and the stepwise run agree: a finished run is one of the results
\* of loadConfigs
LoopAgrees ==
    (ld.status \in {"ok", "err", "panic"}) => ld \in loadConfigs(call.fn, call.workdir, fs)

(***************************************************************************)
(* Properties of loading with includes (checked under SpecInc).            *)
(***************************************************************************)
\* the Config of the file at p alone
alone(p) == loadConfig(p, fs).c

\* the values the file at p alone gives key k
ownValues(p, k) == valuesOf(alone(p).vars, k)

IsPrefixOf(s, t) == Len(s) <= Len(t) /\ SubSeq(t, 1, Len(s)) = s

\* key k is an include directive in force: include.path, or
\* includeif.<condition>.path with a condition that holds for workdir and
\* the root Config c
inForce(k, workdir, c) ==
    \/ k = S("include.path")
    \/ /\ HasPrefix(k, S("includeif.")) /\ HasSuffix(k, S(".path"))
       /\ \E p \in {splitKey(k)} :
             validCandidate(p) /\ matchSubSection(p[2], workdir, c) = "match"

\* the include directive on line i of the lines, if it is one in force: the
\* line adds a value to an include key; the result is the value, in a
\* sequence of length one, or the empty sequence
directiveAt(lines, i, workdir, c) ==
    The({The({IF grown = {} THEN << >>
              ELSE The({IF inForce(k, workdir, c) THEN <<now[k][Len(now[k])]>>
                        ELSE << >>
                        : k \in {The(grown)}})
              : grown \in {{k \in DOMAIN now :
                              Len(now[k]) > Len(valuesOf(before, k))}}})
         : now    \in {ParseConfig(JoinLines(SubSeq(lines, 1, i))).vars},
           before \in {ParseConfig(JoinLines(SubSeq(lines, 1, i - 1))).vars}})

\* the include paths of root file fn in the order of their directives
RECURSIVE directivesFrom(_, _, _, _)
directivesFrom(lines, i, workdir, c) ==
    IF i > Len(lines) THEN << >>
    ELSE directiveAt(lines, i, workdir, c) \o directivesFrom(lines, i + 1, workdir, c)

\* the first-level includes of root fn, in the order of their directives
firstLevel(fn, workdir) ==
    getPathsForNestedConfig(
        directivesFrom(ScanLines(fs[resolve(fn)]), 1, workdir,
                       [alone(fn) EXCEPT !.branch = readGitBranch(workdir, fs)]),
        fn)

\* the values for k of the files at paths, in that order, a file that is in
\* seen or comes a second time giving none
RECURSIVE valuesInOrder(_, _, _)
valuesInOrder(paths, seen, k) ==
    IF paths = << >> THEN << >>
    ELSE IF Head(paths) \in seen THEN valuesInOrder(Tail(paths), seen, k)
    ELSE ownValues(Head(paths), k)
         \o valuesInOrder(Tail(paths), seen \cup {Head(paths)}, k)

\* C7: include merge order.  When a load with includes succeeds, the values
\* of each key start with the root file's values, followed by the values of
\* the first-level included files in the order in which their include
\* directives (unconditional, or conditional and in force) appear in the
\* root file; the values of deeper includes come after these.  Get returns
\* the root's first value whenever the root defines the key.
C7_IncludeMergeOrder ==
    (ld.status = "ok")
        => \A fl \in {firstLevel(call.fn, call.workdir)} :
              \A k \in DOMAIN ld.c.vars :
                 /\ IsPrefixOf(ownValues(call.fn, k) \o valuesInOrder(fl, {call.fn}, k),
                               ld.c.vars[k])
                 /\ ownValues(call.fn, k) # << >>
                       => Get(ld.c, k) = <<ownValues(call.fn, k)[1], TRUE>>

\* /w/order names a (in a conditional include in force) before b, and the
\* load gives core.k the value of b before the value of a
C7_ConditionalAfterUnconditional ==
    /\ ld.status = "ok" /\ call.fn = S("/w/order") /\ call.workdir = S("/w")
    /\ firstLevel(call.fn, call.workdir) = <<S("/w/a"), S("/w/b")>>
    /\ ld.c.vars[S("core.k")] = <<S("r"), S("2"), S("1")>>

\* the values of all include keys of a Config, whatever their conditions
includeValues(c) ==
    UNION {Range(c.vars[k])
           : k \in {j \in DOMAIN c.vars :
                      \/ j = S("include.path")
                      \/ HasPrefix(j, S("includeif.")) /\ HasSuffix(j, S(".path"))}}

\* the paths the file at p refers to
refs(p) ==
    IF loadConfig(p, fs).err THEN {}
    ELSE UNION {Range(nestedPath(v, p)) : v \in includeValues(alone(p))}

\* every path referenced from the paths in front, directly or not
RECURSIVE referenced(_, _)
referenced(seen, front) ==
    IF front = {} THEN seen
    ELSE referenced(seen \cup front,
                    UNION {refs(p) : p \in front} \ (seen \cup front))

\* C8: include cycle termination.  Every call of loadConfigs ends (see
\* LoadProgress), and when the root and every file referenced from it,
\* directly or through other files, in a cycle or not, is readable, it ends
\* with a Config and no error.
C8_LoadSucceeds ==
    (/\ ld.status \in {"ok", "err", "panic"}
     /\ \A p \in referenced({}, {call.fn}) : isFile(fs, p))
        => ld.status = "ok"

\* /w/bad and the file it refers to are readable, and the load of /w/bad
\* ended in a panic
C8_LoadPanics ==
    /\ call.fn = S("/w/bad")
    /\ referenced({}, {call.fn}) = {S("/w/bad"), S("/w/a")}
    /\ \A p \in referenced({}, {call.fn}) : isFile(fs, p)
    /\ ld.status = "panic"

\* the number of values the distinct files give key k, each counted once
RECURSIVE countOnce(_, _)
countOnce(files, k) ==
    IF files = {} THEN 0
    ELSE \* any order: the sum does not depend on it
         The({Len(ownValues(f, k)) + countOnce(files \ {f}, k)
              : f \in {CHOOSE g \in files : TRUE}})

\* C9: exactly-once loading.  In a load that succeeds, each distinct file
\* that was read (the root included, however the caller spelled its path)
\* contributes its values to the aggregate exactly once: every key has as
\* many values as the distinct files read give it together.
C9_ExactlyOnce ==
    (ld.status = "ok")
        => \A files \in {{resolve(p) : p \in ld.loaded}} :
              \A k \in DOMAIN ld.c.vars :
                 Len(ld.c.vars[k]) = countOnce(files, k)

\* the root was spelled ./config, its include foo.config refers back to it
\* as config, and the root's value 7 for core.int is in the aggregate twice
C9_RootMergedTwice ==
    /\ ld.status = "ok" /\ call.fn = S("./config")
    /\ {resolve(p) : p \in ld.loaded} = {S("/w/config"), S("/w/foo.config"), S("/w/bar.config")}
    /\ ld.c.vars[S("core.int")] = <<S("7"), S("8"), S("7"), S("9")>>

(***************************************************************************)
(* Configs: the scopes of one repository.  A scope is a *Config: Nil, or   *)
(* a Config in a sequence of length one.                                   *)
(***************************************************************************)
Nil == << >>
Some(c) == <<c>>

\* The package defaults New() copies into the Configs.
Name           == S("git")
SystemConfig   == S("/etc/gitconfig")
GlobalConfig   == S(".gitconfig")
LocalConfig    == S("config")
WorktreeConfig == S("config.worktree")
EnvPrefix      == S("GIT_CONFIG")

\* appdir.UserHome() and appdir.New(name).UserConfig()
UserHome == S("/h")
UserConfig(name) == Join(Join(UserHome, S(".config")), name)

globalConfigFile(name) == Join(UserConfig(name), S("config"))

\* os.Getenv and os.LookupEnv on an environment (a function from names to
\* values)
Getenv(env, name) == IF name \in DOMAIN env THEN env[name] ELSE << >>
LookupEnv(env, name) == IF name \in DOMAIN env THEN <<env[name], TRUE>>
                        ELSE << << >>, FALSE>>

\* strconv.Itoa and strconv.Atoi, for numbers that fit an int
digitOf(n) == DigitChars[n + 1]
valueOf(ch) == (CHOOSE i \in DOMAIN DigitChars : DigitChars[i] = ch) - 1

RECURSIVE Itoa(_)
Itoa(n) == IF n < 10 THEN <<digitOf(n)>>
           ELSE Itoa(n \div 10) \o <<digitOf(n % 10)>>

RECURSIVE natOf(_, _)
natOf(digits, acc) == IF digits = << >> THEN acc
                      ELSE natOf(Tail(digits), 10 * acc + valueOf(Head(digits)))

\* Atoi returns [n, err]
Atoi(s) ==
    The({IF body = << >> \/ \E i \in DOMAIN body : ~IsDigit(body[i])
         THEN [n |-> 0, err |-> TRUE]
         ELSE [n |-> IF s[1] = "-" THEN 0 - natOf(body, 0) ELSE natOf(body, 0),
               err |-> FALSE]
         : body \in {IF s # << >> /\ s[1] \in {"+", "-"} THEN Tail(s) ELSE s}})

\* the loop of LoadConfigFromEnv from index i on: <<vars, complete>>
RECURSIVE envVars(_, _, _, _, _)
envVars(envPrefix, env, i, count, acc) ==
    IF i >= count THEN <<acc, TRUE>>
    ELSE The({IF key = << >> \/ ~value[2] THEN <<acc, FALSE>>
              ELSE envVars(envPrefix, env, i + 1, count,
                           with(acc, key, valuesOf(acc, key) \o <<value[1]>>))
              : key   \in {Getenv(env, envPrefix \o S("_KEY_") \o Itoa(i))},
                value \in {LookupEnv(env, envPrefix \o S("_VALUE_") \o Itoa(i))}})

LoadConfigFromEnv(envPrefix, env) ==
    The({IF count.err \/ count.n < 1 THEN [ZeroConfig EXCEPT !.noWrites = TRUE]
         ELSE The({IF ~r[2] THEN [ZeroConfig EXCEPT !.noWrites = TRUE]
                   ELSE [ZeroConfig EXCEPT !.noWrites = TRUE, !.varsNil = FALSE,
                                           !.vars = r[1]]
                   : r \in {envVars(envPrefix, env, 0, count.n, << >>)}})
         : count \in {Atoi(Getenv(env, envPrefix \o S("_COUNT")))}})

\* New()
New ==
    [Preset   |-> Nil,
     system   |-> Some([ZeroConfig EXCEPT !.readonly = TRUE]),
     global   |-> Some([ZeroConfig EXCEPT !.path = globalConfigFile(Name)]),
     local    |-> Some(ZeroConfig),
     worktree |-> Some(ZeroConfig),
     env      |-> Some([ZeroConfig EXCEPT !.noWrites = TRUE]),
     workdir  |-> << >>,
     NoWrites |-> FALSE]

\* LoadConfig(fn): the results it can end with
LoadConfig(fn, fs0) == loadConfigs(fn, << >>, fs0)

\* what LoadConfig gives for each of the paths, in order: every combination
\* of results
RECURSIVE loadEach(_, _)
loadEach(paths, fs0) ==
    IF paths = << >> THEN {<< >>}
    ELSE {<<r>> \o rest : r \in LoadConfig(Head(paths), fs0),
                          rest \in loadEach(Tail(paths), fs0)}

IsEmptyPtr(p) == IF p = Nil THEN TRUE ELSE IsEmpty(p[1])

\* A call in progress: the Configs so far, whether the call has panicked
\* (a nil pointer dereference, or a panic in LoadConfig), and the value
\* loadGlobalConfigs returns.
running(cs0) == [cs |-> cs0, panic |-> FALSE, ret |-> << >>]
panicked(x) == [x EXCEPT !.panic = TRUE]

\* LoadAll, the system scope; r is what LoadConfig(cs.SystemConfig) gives
loadSystem(x, env, r) ==
    IF Getenv(env, EnvPrefix \o S("_NOSYSTEM")) # << >> THEN x
    ELSE IF r.status = "panic" THEN panicked(x)
    ELSE IF r.status # "ok" THEN x
    ELSE [x EXCEPT !.cs.system = Some([r.c EXCEPT !.readonly = TRUE])]

\* the loop of loadGlobalConfigs over locs; results[i] is what LoadConfig
\* gives for locs[i]
RECURSIVE tryLocs(_, _, _)
tryLocs(x, locs, results) ==
    IF locs = << >>
    THEN [x EXCEPT !.cs.global = Some([ZeroConfig EXCEPT !.path = globalConfigFile(Name)]),
                   !.ret = << >>]
    ELSE IF Head(locs) = << >> THEN tryLocs(x, Tail(locs), Tail(results))
    ELSE IF Head(results).status = "panic" THEN panicked(x)
    ELSE IF Head(results).status # "ok" THEN tryLocs(x, Tail(locs), Tail(results))
    ELSE [x EXCEPT !.cs.global = Some(Head(results).c), !.ret = Head(locs)]

\* loadGlobalConfigs; existing is what LoadConfig gives for the path of the
\* global scope there is, results what it gives for the two locations
loadGlobalConfigs(x, existing, results) ==
    IF x.panic THEN x
    ELSE IF /\ ~IsEmptyPtr(x.cs.global)
            /\ x.cs.global[1].path # << >>
            /\ existing.status # "err"
    THEN IF existing.status = "panic" THEN panicked(x)
         ELSE [x EXCEPT !.cs.global = Some(existing.c), !.ret = x.cs.global[1].path]
    ELSE tryLocs(x,
                 <<globalConfigFile(Name)>>
                     \o (IF GlobalConfig # << >> THEN <<Join(UserHome, GlobalConfig)>>
                         ELSE << >>),
                 results)

\* cs.<scope>.noWrites = cs.NoWrites
setNoWrites(x, scope) ==
    IF x.panic THEN x
    ELSE IF x.cs[scope] = Nil THEN panicked(x)
    ELSE [x EXCEPT !.cs[scope] = Some([@[1] EXCEPT !.noWrites = x.cs.NoWrites])]

\* LoadAll, the local and the worktree scope; r is what LoadConfig gives
\* for the scope's path under workdir
loadInto(x, scope, workdir, configPath, r) ==
    IF x.panic \/ workdir = << >> THEN x
    ELSE IF r.status = "panic" THEN panicked(x)
    ELSE IF r.status # "ok"
    THEN IF x.cs[scope] = Nil THEN panicked(x)
         ELSE [x EXCEPT !.cs[scope] = Some([@[1] EXCEPT !.path = configPath])]
    ELSE [x EXCEPT !.cs[scope] = Some(r.c)]

\* LoadAll, the environment
loadEnv(x, env) ==
    IF x.panic THEN x
    ELSE [x EXCEPT !.cs.env = Some(LoadConfigFromEnv(EnvPrefix, env))]

\* the paths LoadAll may read: the system config, the path of the global
\* scope there is, the two locations of the global config, the local and
\* the worktree config
loadAllPaths(cs0, workdir) ==
    <<SystemConfig,
      IF cs0.global = Nil THEN << >> ELSE cs0.global[1].path,
      globalConfigFile(Name),
      Join(UserHome, GlobalConfig),
      Join(workdir, LocalConfig),
      Join(workdir, WorktreeConfig)>>

\* LoadAll(workdir) in environment env: the outcomes it can have
LoadAll(cs0, workdir, env, fs0) ==
    {loadEnv(
         setNoWrites(
             loadInto(
                 setNoWrites(
                     loadInto(
                         setNoWrites(
                             loadGlobalConfigs(
                                 loadSystem(running([cs0 EXCEPT !.workdir = workdir]),
                                            env, L[1]),
                                 L[2], <<L[3], L[4]>>),
                             "global"),
                         "local", workdir, Join(workdir, LocalConfig), L[5]),
                     "local"),
                 "worktree", workdir, Join(workdir, WorktreeConfig), L[6]),
             "worktree"),
         env)
     : L \in loadEach(loadAllPaths(cs0, workdir), fs0)}

\* HasGlobalConfig(): the outcomes it can have; the value it returns is
\* whether ret is not empty
HasGlobalConfig(cs0, fs0) ==
    {loadGlobalConfigs(running(cs0), L[1], <<L[2], L[3]>>)
     : L \in loadEach(<<IF cs0.global = Nil THEN << >> ELSE cs0.global[1].path,
                        globalConfigFile(Name),
                        Join(UserHome, GlobalConfig)>>, fs0)}

\* the loop of Configs.Get over the scopes
RECURSIVE firstGet(_, _)
firstGet(scopes, key) ==
    IF scopes = << >> THEN << >>
    ELSE IF Head(scopes) = Nil THEN firstGet(Tail(scopes), key)
    ELSE IF Head(scopes)[1].varsNil THEN firstGet(Tail(scopes), key)
    ELSE IF Get(Head(scopes)[1], key)[2] THEN Get(Head(scopes)[1], key)[1]
    ELSE firstGet(Tail(scopes), key)

\* a Get that would ask the scopes in another order
ConfigsGetGlobalFirst(cs0, key) ==
    firstGet(<<cs0.global, cs0.env, cs0.worktree, cs0.local, cs0.system, cs0.Preset>>, key)

\* Configs.Get(key)
ConfigsGet(cs0, key) ==
    firstGet(<<cs0.env, cs0.worktree, cs0.local, cs0.global, cs0.system, cs0.Preset>>, key)

\* the loop of Configs.GetAll over the scopes (nil is the empty sequence)
RECURSIVE firstGetAll(_, _)
firstGetAll(scopes, key) ==
    IF scopes = << >> THEN << >>
    ELSE IF Head(scopes) = Nil THEN firstGetAll(Tail(scopes), key)
    ELSE IF Head(scopes)[1].varsNil THEN firstGetAll(Tail(scopes), key)
    ELSE IF GetAll(Head(scopes)[1], key)[2] THEN GetAll(Head(scopes)[1], key)[1]
    ELSE firstGetAll(Tail(scopes), key)

\* Configs.GetAll(key)
ConfigsGetAll(cs0, key) ==
    firstGetAll(<<cs0.env, cs0.worktree, cs0.local, cs0.global, cs0.system, cs0.Preset>>, key)

\* Get on a *Config that may be nil: [panic, value, found]
getPtr(p, key) ==
    IF p = Nil THEN [panic |-> TRUE, value |-> << >>, found |-> FALSE]
    ELSE The({[panic |-> FALSE, value |-> g[1], found |-> g[2]] : g \in {Get(p[1], key)}})

\* Configs.GetFrom(key, scope)
GetFrom(cs0, key, scope) ==
    The({IF s = S("env") THEN getPtr(cs0.env, key)
         ELSE IF s = S("worktree") THEN getPtr(cs0.worktree, key)
         ELSE IF s = S("local") THEN getPtr(cs0.local, key)
         ELSE IF s = S("global") THEN getPtr(cs0.global, key)
         ELSE IF s = S("system") THEN getPtr(cs0.system, key)
         ELSE IF s = S("preset") THEN getPtr(cs0.Preset, key)
         ELSE [panic |-> FALSE, value |-> << >>, found |-> FALSE]
         : s \in {ToLower(scope)}})

\* what a write to one scope returns: the Configs, the files, the error
written(cs0, scope, r) ==
    [cs |-> [cs0 EXCEPT ![scope] = Some(r.c)], fs |-> r.fs, err |-> r.err,
     error |-> r.error]
notWritten(cs0, fs0, e) == [cs |-> cs0, fs |-> fs0, err |-> e # NoError, error |-> e]

\* a SetLocal that would fall back to the global scope while the local
\* scope is not loaded
SetLocalOrGlobal(cs0, key, value, fs0) ==
    IF IsEmptyPtr(cs0.local) /\ cs0.global # Nil
    THEN written(cs0, "global", Set(cs0.global[1], key, value, fs0))
    ELSE IF cs0.local = Nil THEN notWritten(cs0, fs0, errorf(S("no workdir set"), NoError))
    ELSE written(cs0, "local", Set(cs0.local[1], key, value, fs0))

\* Configs.SetLocal(key, value)
SetLocal(cs0, key, value, fs0) ==
    IF cs0.local = Nil /\ cs0.workdir = << >> THEN notWritten(cs0, fs0, errorf(S("no workdir set"), NoError))
    ELSE written(cs0, "local",
                 Set(IF cs0.local = Nil
                     THEN [ZeroConfig EXCEPT !.path = Join(cs0.workdir, LocalConfig)]
                     ELSE cs0.local[1],
                     key, value, fs0))

\* Configs.SetGlobal(key, value)
SetGlobal(cs0, key, value, fs0) ==
    written(cs0, "global",
            Set(IF cs0.global = Nil
                THEN [ZeroConfig EXCEPT !.path = globalConfigFile(Name)]
                ELSE cs0.global[1],
                key, value, fs0))

\* Configs.SetEnv(key, value)
SetEnv(cs0, key, value, fs0) ==
    written(cs0, "env",
            Set(IF cs0.env = Nil THEN [ZeroConfig EXCEPT !.noWrites = TRUE]
                ELSE cs0.env[1],
                key, value, fs0))

\* Configs.UnsetLocal(key)
UnsetLocal(cs0, key, fs0) ==
    IF cs0.local = Nil THEN notWritten(cs0, fs0, NoError)
    ELSE written(cs0, "local", Unset(cs0.local[1], key, fs0))

\* Configs.UnsetGlobal(key)
UnsetGlobal(cs0, key, fs0) ==
    IF cs0.global = Nil THEN notWritten(cs0, fs0, NoError)
    ELSE written(cs0, "global", Unset(cs0.global[1], key, fs0))

(***************************************************************************)
(* SpecScopes: one Configs made by New(), its scopes loaded and written.   *)
(***************************************************************************)
\* The files SpecScopes starts with.
ScopeDisk ==
       (S("/etc/gitconfig")      :> S("[core]\n\tfoo = s\n\tsys = y\n"))
    @@ (S("/h/.gitconfig")       :> S("[core]\n\tfoo = g\n"))
    @@ (S("/w/config")           :> S("[core]\n\tfoo = l\n"))
    @@ (S("/w/config.worktree")  :> S("[core]\n\twt = t\n"))
    @@ (S("/x/config.worktree")  :> S("[core]\n\tfoo = t\n"))
    @@ (S("/x/config")           :> S("[includeIf \"gitdir:/x/\"]\n\tpath = inc\n[includeIf \"onbranch:main\"]\n\tpath = br\n[include]\n\tpath = un\n"))
    @@ (S("/x/un")               :> S("[core]\n\tun = u\n"))
    @@ (S("/x/inc")              :> S("[core]\n\tcond = c\n"))
    @@ (S("/x/br")               :> S("[core]\n\tbr = b\n"))
    @@ (S("/x/.git/HEAD")        :> S("ref: refs/heads/main\n"))

\* the files another process removes while the Configs is in use
Removable == {S("/w/config"), S("/etc/gitconfig")}

\* the working directories LoadAll is called with
ScopeWorkdirs == {<< >>, S("/w"), S("/x")}

\* the environments of the process
Envs ==
    {<< >>,
        (S("GIT_CONFIG_COUNT")   :> S("1"))
     @@ (S("GIT_CONFIG_KEY_0")   :> S("core.foo"))
     @@ (S("GIT_CONFIG_VALUE_0") :> S("e")),
        (S("GIT_CONFIG_NOSYSTEM") :> S("1"))
     @@ (S("GIT_CONFIG_COUNT")   :> S("2"))
     @@ (S("GIT_CONFIG_KEY_0")   :> S("core.foo"))
     @@ (S("GIT_CONFIG_VALUE_0") :> S("e"))
     @@ (S("GIT_CONFIG_KEY_1")   :> S("core.bar"))}

\* the maps the preset is made from
Presets == {(S("core.foo") :> S("p")) @@ (S("core.pre") :> S("q"))}

\* the keys and values the scopes are asked for and written with
ScopeKeys == {S("core.foo"), S("core.new")}
ScopeValues == {S("v")}

\* the number of writes to the scopes explored
MaxScopeOps == 1

\* the scope names GetFrom is asked for
ScopeNames == {S("env"), S("worktree"), S("Local"), S("global"), S("SYSTEM"),
               S("preset"), S("other")}

InitScopes ==
    /\ fs = ScopeDisk
    /\ cfg = ZeroConfig
    /\ origin = NoOrigin
    /\ last = NoOp
    /\ nops = 0
    /\ ld = loaderFailed("idle")
    /\ call = NoCall
    /\ cs = New
    /\ environ \in Envs

\* what the last call on the Configs was; for a write, the Configs and the
\* files before it
doneOn(op, key, value, e) ==
    [op |-> op, key |-> key, value |-> value, err |-> e # NoError, error |-> e,
     pre |-> cs, prefs |-> fs]
noted(op, err) ==
    [op |-> op, key |-> << >>, value |-> << >>, err |-> err, error |-> NoError,
     pre |-> << >>, prefs |-> << >>]

\* cs.Preset = NewFromMap(data), before the Configs is used
PresetOp ==
    /\ last.op \in {"none", "NoWrites"}
    /\ \E data \in Presets : cs' = [cs EXCEPT !.Preset = Some(NewFromMap(data))]
    /\ last' = noted("Preset", FALSE)
    /\ UNCHANGED <<environ, fs, cfg, origin, nops, ld, call>>

\* cs.NoWrites = true, before the Configs is used
NoWritesOp ==
    /\ last.op \in {"none", "Preset"}
    /\ ~cs.NoWrites
    /\ cs' = [cs EXCEPT !.NoWrites = TRUE]
    /\ last' = noted("NoWrites", FALSE)
    /\ UNCHANGED <<environ, fs, cfg, origin, nops, ld, call>>

\* cs.LoadAll(workdir)
LoadAllOp ==
    /\ nops = 0
    /\ \E workdir \in ScopeWorkdirs : \E x \in LoadAll(cs, workdir, environ, fs) :
          /\ cs' = x.cs
          /\ last' = noted("LoadAll", x.panic)
    /\ origin' = [op |-> "LoadAll", arg |-> << >>, failed |-> FALSE]
    /\ UNCHANGED <<environ, fs, cfg, nops, ld, call>>

\* cs.HasGlobalConfig(), after LoadAll
HasGlobalConfigOp ==
    /\ last.op = "LoadAll"
    /\ \E x \in HasGlobalConfig(cs, fs) :
          /\ cs' = x.cs
          /\ last' = noted("HasGlobalConfig", x.panic)
    /\ UNCHANGED <<environ, fs, cfg, origin, nops, ld, call>>

\* another process removes a file (Reload is there for files "modified
\* externally")
RemoveFileOp ==
    /\ origin.op = "LoadAll"
    /\ nops < MaxScopeOps
    /\ \E p \in Removable \cap DOMAIN fs :
          /\ fs' = without(fs, p)
          /\ last' = doneOn("Remove", p, << >>, NoError)
    /\ nops' = nops + 1
    /\ UNCHANGED <<environ, cs, cfg, origin, ld, call>>

\* cs.Reload(), after a write
ReloadOp ==
    /\ nops > 0
    /\ \E x \in LoadAll(cs, cs.workdir, environ, fs) :
          /\ cs' = x.cs
          /\ last' = noted("Reload", x.panic)
    /\ UNCHANGED <<environ, fs, cfg, origin, nops, ld, call>>

\* one of the writes: the Configs and the files change as the call says
wrote(op, key, value, r) ==
    /\ cs' = r.cs
    /\ fs' = r.fs
    /\ last' = doneOn(op, key, value, r.error)
    /\ nops' = nops + 1
    /\ UNCHANGED <<environ, cfg, origin, ld, call>>

SetLocalOp ==
    /\ nops < MaxScopeOps
    /\ \E key \in ScopeKeys, value \in ScopeValues :
          wrote("SetLocal", key, value, SetLocal(cs, key, value, fs))

SetGlobalOp ==
    /\ nops < MaxScopeOps
    /\ \E key \in ScopeKeys, value \in ScopeValues :
          wrote("SetGlobal", key, value, SetGlobal(cs, key, value, fs))

SetEnvOp ==
    /\ nops < MaxScopeOps
    /\ \E key \in ScopeKeys, value \in ScopeValues :
          wrote("SetEnv", key, value, SetEnv(cs, key, value, fs))

UnsetLocalOp ==
    /\ nops < MaxScopeOps
    /\ \E key \in ScopeKeys : wrote("UnsetLocal", key, << >>, UnsetLocal(cs, key, fs))

UnsetGlobalOp ==
    /\ nops < MaxScopeOps
    /\ \E key \in ScopeKeys : wrote("UnsetGlobal", key, << >>, UnsetGlobal(cs, key, fs))

NextScopes ==
    \/ PresetOp \/ NoWritesOp \/ LoadAllOp \/ ReloadOp
    \/ HasGlobalConfigOp \/ RemoveFileOp
    \/ SetLocalOp \/ SetGlobalOp \/ SetEnvOp \/ UnsetLocalOp \/ UnsetGlobalOp

SpecScopes == InitScopes /\ [][NextScopes]_vars

(***************************************************************************)
(* Properties of the scopes (checked under SpecScopes).                    *)
(***************************************************************************)
\* the scopes from the highest priority to the lowest
priority == <<"env", "worktree", "local", "global", "system", "Preset">>

\* the scope has a Store with a loaded index
loaded(name) == cs[name] # Nil /\ ~cs[name][1].varsNil

\* the positions in priority of the scopes whose own Get finds the key
holdersOf(key) == {i \in 1..6 : loaded(priority[i]) /\ Get(cs[priority[i]][1], key)[2]}

\* the same for GetAll
allHoldersOf(key) ==
    {i \in 1..6 : loaded(priority[i]) /\ GetAll(cs[priority[i]][1], key)[2]}

\* the field of the Configs a scope name (in any letter case) stands for
fieldOf(scope) ==
    IF ToLower(scope) = S("env") THEN "env"
    ELSE IF ToLower(scope) = S("worktree") THEN "worktree"
    ELSE IF ToLower(scope) = S("local") THEN "local"
    ELSE IF ToLower(scope) = S("global") THEN "global"
    ELSE IF ToLower(scope) = S("system") THEN "system"
    ELSE IF ToLower(scope) = S("preset") THEN "Preset"
    ELSE "none"

\* C5: scope precedence.  Configs.Get(key) and Configs.GetAll(key) return
\* what the first scope in the order environment, worktree, local, global,
\* system, preset that has the key returns, scopes that are absent or have
\* no loaded index being skipped (and the empty string, or nil, when no scope
\* has the key); GetFrom(key, scope) returns what the named scope's own Get
\* returns, whatever scopes of higher priority hold.
C5_ScopePrecedence ==
    \A key \in ScopeKeys :
       /\ \A h \in {holdersOf(key)} :
             ConfigsGet(cs, key) = IF h = {} THEN << >>
                                   ELSE Get(cs[priority[Min(h)]][1], key)[1]
       /\ \A h \in {allHoldersOf(key)} :
             ConfigsGetAll(cs, key) = IF h = {} THEN << >>
                                      ELSE GetAll(cs[priority[Min(h)]][1], key)[1]
       /\ \A scope \in ScopeNames : \A f \in {fieldOf(scope)} :
             (f # "none" /\ cs[f] # Nil)
                => \E g \in {Get(cs[f][1], key)} :
                      GetFrom(cs, key, scope)
                          = [panic |-> FALSE, value |-> g[1], found |-> g[2]]

\* every scope holds core.foo with a value of its own; Get returns the
\* environment's, GetFrom the named scope's
C5_AllScopesDiffer ==
    /\ \A i \in 1..6 : loaded(priority[i])
    /\ <<Get(cs.env[1], S("core.foo")), Get(cs.worktree[1], S("core.foo")),
         Get(cs.local[1], S("core.foo")), Get(cs.global[1], S("core.foo")),
         Get(cs.system[1], S("core.foo")), Get(cs.Preset[1], S("core.foo"))>>
         = <<<<S("e"), TRUE>>, <<S("t"), TRUE>>, <<S("v"), TRUE>>, <<S("g"), TRUE>>,
             <<S("s"), TRUE>>, <<S("p"), TRUE>>>>
    /\ ConfigsGet(cs, S("core.foo")) = S("e")
    /\ GetFrom(cs, S("core.foo"), S("global")).value = S("g")
    /\ GetFrom(cs, S("core.foo"), S("Local")).value = S("v")

\* the scope a write is named after
namedScope(op) == IF op = "SetLocal" THEN "local"
                  ELSE IF op = "SetGlobal" THEN "global"
                  ELSE "env"

\* C6: scope-targeted writes.  After SetLocal, SetGlobal or SetEnv every
\* scope other than the named one is as it was before the call (its index,
\* its text and everything else of its Store), whether or not the named
\* scope had been loaded; so the value is in no scope it was not in before,
\* except the named one.  A file changes only at the named scope's path.
C6_ScopeTargetedWrites ==
    (last.op \in {"SetLocal", "SetGlobal", "SetEnv"})
        => \A named \in {namedScope(last.op)} :
              /\ \A f \in {"Preset", "system", "global", "local", "worktree", "env"} \ {named} :
                    cs[f] = last.pre[f]
              /\ cs.workdir = last.pre.workdir /\ cs.NoWrites = last.pre.NoWrites
              /\ \A p \in (DOMAIN fs \cup DOMAIN last.prefs) :
                    (p \notin DOMAIN fs \/ p \notin DOMAIN last.prefs \/ fs[p] # last.prefs[p])
                       => cs[named] # Nil /\ p = resolve(cs[named][1].path)

\* SetLocal("core.new", "v") on a Configs whose local scope had not been
\* loaded: the value is in the local scope and in no other
C6_SetLocalUnloaded ==
    /\ last.op = "SetLocal" /\ ~last.err /\ last.key = S("core.new")
    /\ last.pre.local[1].varsNil
    /\ loaded("global") /\ loaded("system")
    /\ Get(cs.local[1], S("core.new")) = <<S("v"), TRUE>>
    /\ \A f \in {"system", "global", "worktree", "env"} :
          ~Get(cs[f][1], S("core.new"))[2]
    /\ ConfigsGet(cs, S("core.new")) = S("v")

(***************************************************************************)
(* Round trip, edit locality, Unset, read-only Configs and invalid keys    *)
(* (checked under Spec).                                                   *)
(***************************************************************************)
\* a line of the format: blank, a full-line comment, a section header, or a
\* key (a letter, then letters, digits and hyphens) with or without a value
validLine(fullLine) ==
    \E line \in {TrimSpace(fullLine)} :
       \/ line = << >>
       \/ HasPrefix(line, <<"#">>) \/ HasPrefix(line, <<";">>)
       \/ HasPrefix(line, <<"[">>) /\ HasSuffix(line, <<"]">>) /\ Len(line) > 2
       \/ reValidKey(ToLower(TrimSpace(Cut(line, "=")[1])))

\* a valid input text: lines of the format, each ended by a newline
validText(text) ==
    /\ text # << >> /\ text[Len(text)] = "\n"
    /\ \A l \in Range(ScanLines(text)) : validLine(l)

\* C11: round-trip idempotence.  For a valid input text T, the text of the
\* Config that ParseConfig makes of T (and of the Config LoadConfig makes of
\* a file that holds T), with no Set or Unset in between, is T.
C11_RoundTrip ==
    /\ (last.op = "parse" /\ validText(last.value)) => cfg.raw = last.value
    /\ (last.op = "load" /\ validText(fs[resolve(origin.arg)]))
          => cfg.raw = fs[resolve(origin.arg)]

\* the text with the quoted value "a b" was parsed; the Config's text has
\* the value without its quotes
C11_QuotesDropped ==
    /\ last.op = "parse"
    /\ last.value = S("; c\n\n[core]\n\tfoo = \"a b\"\n[other]\n\tint = x\n")
    /\ validText(last.value)
    /\ Get(cfg, S("core.foo")) = <<S("a b"), TRUE>>
    /\ cfg.raw = S("; c\n\n[core]\n\tfoo = a b\n[other]\n\tint = x\n")

\* the lines at the positions that are not in skip, in their order
RECURSIVE linesExcept(_, _, _)
linesExcept(lines, i, skip) ==
    IF i > Len(lines) THEN << >>
    ELSE (IF i \in skip THEN << >> ELSE <<lines[i]>>) \o linesExcept(lines, i + 1, skip)

\* a can be had from b by leaving lines out
RECURSIVE isSubseq(_, _)
isSubseq(a, b) ==
    IF a = << >> THEN TRUE
    ELSE IF b = << >> THEN FALSE
    ELSE IF Head(a) = Head(b) THEN isSubseq(Tail(a), Tail(b))
    ELSE isSubseq(a, Tail(b))

\* C12: edit locality.  After a Set or Unset of key k that returned success,
\* every line of the text from before the call that does not assign k (a
\* full-line comment, a blank line, a section header, a line of another key)
\* is in the text after the call, unchanged and in the same relative order;
\* Unset adds no line and Set adds at most a section header and a key line.
C12_EditLocality ==
    (last.op \in {"set", "unset"} /\ ~last.err)
        => \A old \in {ScanLines(last.pre.raw)}, new \in {ScanLines(cfg.raw)} :
              /\ isSubseq(linesExcept(old, 1,
                                      assigningLines(old, canonicalizeKey(last.key))),
                          new)
              /\ Len(new) <= Len(old) + (IF last.op = "set" THEN 2 ELSE 0)

\* the text "top = t, [core], foo = a" (a key line before the first header)
\* was parsed and Unset("nosection") has returned success: every key line is
\* gone from the text, the line of core.foo too, which is still in the index
C12_AllKeyLinesDeleted ==
    /\ origin.op = "parse" /\ origin.arg = S("top = t\n[core]\n\tfoo = a\n")
    /\ nops = 1
    /\ last.op = "unset" /\ ~last.err /\ last.key = S("nosection")
    /\ last.pre.raw = S("\ttop = t\n[core]\n\tfoo = a\n")
    /\ cfg.raw = S("[core]\n")
    /\ Get(cfg, S("core.foo")) = <<S("a"), TRUE>>

\* the section headers among the lines, in their order
headersOf(lines) ==
    linesExcept(lines, 1, {i \in 1..Len(lines) : ~HasPrefix(TrimSpace(lines[i]), <<"[">>)})

\* C13: Unset.  On a writable Config, Unset(k) of a key that is not set
\* returns success and changes nothing; for a key that is set, after a
\* successful Unset(k) IsSet(k) is false, Get(k) finds nothing, no line of
\* the text assigns k any more, and the section headers are all still there.
C13_Unset ==
    (last.op = "unset" /\ ~last.pre.readonly)
        => IF ~IsSet(last.pre, last.key)
           THEN ~last.err /\ cfg = last.pre /\ fs = last.prefs
           ELSE ~last.err
                   => /\ ~IsSet(cfg, last.key)
                      /\ Get(cfg, last.key) = << << >>, FALSE>>
                      /\ assigningLines(ScanLines(cfg.raw), canonicalizeKey(last.key)) = {}
                      /\ headersOf(ScanLines(cfg.raw)) = headersOf(ScanLines(last.pre.raw))

\* /w/upper (section header [Core]) was loaded and Unset("core.foo") has
\* returned success: the key is gone from the index, its line is still in
\* the text and in the file
C13_LineLeftBehind ==
    /\ origin.op = "load" /\ origin.arg = S("/w/upper") /\ nops = 1
    /\ last.op = "unset" /\ ~last.err /\ last.key = S("core.foo")
    /\ IsSet(last.pre, last.key) /\ ~IsSet(cfg, last.key)
    /\ assigned(cfg.raw, S("core.foo")) = <<S("a")>>
    /\ assigned(fs[S("/w/upper")], S("core.foo")) = <<S("a")>>

\* C14: read-only Configs.  On a read-only Config (a preset made by
\* NewFromMap), Set(k, v) and Unset(k) return success for every key and
\* value and leave the index, the text and the files as they were.
C14_ReadOnly ==
    (last.op \in {"set", "unset"} /\ last.pre.readonly)
        => ~last.err /\ cfg = last.pre /\ fs = last.prefs

\* Set("nosection", "d") on the preset made by NewFromMap returned an error
\* (and changed nothing)
C14_SetFailsOnPreset ==
    /\ origin.op = "map" /\ cfg.readonly /\ nops = 1
    /\ last.op = "set" /\ last.key = S("nosection") /\ last.value = S("d")
    /\ last.err
    /\ cfg = last.pre /\ fs = last.prefs

\* C16: invalid key.  Set(k, v) with a key that has no section or no final
\* key segment fails, the error is ErrInvalidKey for errors.Is, and neither
\* the index nor the text nor a file changes.
C16_InvalidKey ==
    (last.op = "set" /\ ~wellFormed(last.key))
        => /\ last.err
           /\ errorsIs(last.error, ErrInvalidKey)
           /\ cfg = last.pre /\ fs = last.prefs

\* Set("nosection", "d") on a parsed Config failed and changed nothing, and
\* its error is a new error "invalid key: nosection" that neither is nor
\* wraps ErrInvalidKey
C16_ErrorNotErrInvalidKey ==
    /\ origin.op = "parse" /\ nops = 1
    /\ last.op = "set" /\ last.key = S("nosection") /\ last.value = S("d")
    /\ last.err
    /\ last.error = errorf(S("invalid key: nosection"), NoError)
    /\ ~errorsIs(last.error, ErrInvalidKey)
    /\ cfg = last.pre /\ fs = last.prefs

(***************************************************************************)
(* Include fail-fast (checked under SpecInc).                              *)
(***************************************************************************)
\* the paths the file at p gives to load: the values of its include
\* directives in force for workdir and the branch of workdir
dueRefs(p, workdir) ==
    IF ~isFile(fs, p) THEN {}
    ELSE The({UNION {UNION {Range(nestedPath(v, p)) : v \in Range(c.vars[k])}
                     : k \in {j \in DOMAIN c.vars : inForce(j, workdir, c)}}
              : c \in {[alone(p) EXCEPT !.branch = readGitBranch(workdir, fs)]}})

\* every path due to be loaded from the paths in front, directly or through
\* the files that can be read
RECURSIVE due(_, _, _)
due(seen, front, workdir) ==
    IF front = {} THEN seen
    ELSE due(seen \cup front,
             UNION {dueRefs(p, workdir) : p \in front} \ (seen \cup front),
             workdir)

\* C17: include fail-fast.  If a file that is due to be loaded (the target
\* of an unconditional include, or of a conditional include whose condition
\* holds) is not a file that can be opened and read, the load fails: it ends
\* with an error and returns no Config.
C17_IncludeFailFast ==
    (/\ ld.status \in {"ok", "err", "panic"}
     /\ \E p \in due({}, {call.fn}, call.workdir) : ~isFile(fs, p))
        => ld.status = "err" /\ ld.c = ZeroConfig

\* /w/incdir includes .git, a directory: nothing can be read from it, and
\* the load ended with a Config and no error
C17_DirectoryIncluded ==
    /\ call.fn = S("/w/incdir")
    /\ due({}, {call.fn}, call.workdir) = {S("/w/incdir"), S("/w/.git")}
    /\ isDir(fs, S("/w/.git")) /\ ~isFile(fs, S("/w/.git"))
    /\ ld.status = "ok"
    /\ ld.c.vars[S("core.k")] = <<S("d")>>


\* ---------------------------------------------------------------------
\* C15. Once Configs.NoWrites is true and LoadAll has run, no operation of
\* the Configs changes a file on disk: after every write operation
\* (SetLocal, SetGlobal, SetEnv, UnsetLocal, UnsetGlobal) the files are
\* what they were before it.
writeOps == {"SetLocal", "SetGlobal", "SetEnv", "UnsetLocal", "UnsetGlobal"}

C15_NoWrites ==
    (cs.NoWrites /\ origin.op = "LoadAll" /\ last.op \in writeOps)
        => fs = last.prefs

\* NoWrites was set before LoadAll, HasGlobalConfig() has since replaced the
\* global store, and SetGlobal has written the global file
C15_GlobalWritten ==
    /\ cs.NoWrites
    /\ origin.op = "LoadAll"
    /\ last.op = "SetGlobal"
    /\ last.pre.NoWrites
    /\ last.pre.global # Nil
    /\ ~last.pre.global[1].noWrites
    /\ fs # last.prefs
    /\ fs[cs.global[1].path] # last.prefs[cs.global[1].path]


\* ---------------------------------------------------------------------
\* the values that the files included by the file of a scope give to key,
\* when its include and includeIf entries are taken against workdir
includedValues(p, workdir, key) ==
    UNION {Range(ownValues(q, key)) : q \in {r \in dueRefs(p, workdir) : isFile(fs, r)}}

\* C18. LoadAll(workdir) takes the include and includeIf entries of the
\* local and of the global file against workdir: every value that a file
\* included by an entry in force (an include, a gitdir: pattern matching
\* workdir, an onbranch: pattern matching the branch of workdir) gives to a
\* key is among the values of that scope after the load, and Configs.Get and
\* Configs.GetAll find the key.
C18_LoadAllIncludes ==
    (last.op = "LoadAll" /\ ~last.err) =>
        \A scope \in {"local", "global"} :
            (cs[scope] # Nil /\ isFile(fs, cs[scope][1].path)) =>
                \A key \in {S("core.cond"), S("core.br"), S("core.un")} :
                    \A v \in includedValues(cs[scope][1].path, cs.workdir, key) :
                        /\ v \in Range(GetAll(cs[scope][1], key)[1])
                        /\ ConfigsGet(cs, key) # << >>
                        /\ ConfigsGetAll(cs, key) # << >>

\* LoadAll("/x") has run, /x/config has includeIf entries for gitdir:/x/ and
\* onbranch:main, the branch of /x is main, the file of its
\* include entry has been loaded, and neither core.cond nor core.br can be
\* read
C18_IncludeIfIgnored ==
    /\ last.op = "LoadAll"
    /\ ~last.err
    /\ cs.workdir = S("/x")
    /\ cs.local # Nil
    /\ cs.local[1].path = S("/x/config")
    /\ readGitBranch(cs.workdir, fs) = S("main")
    /\ S("c") \in includedValues(S("/x/config"), S("/x"), S("core.cond"))
    /\ S("b") \in includedValues(S("/x/config"), S("/x"), S("core.br"))
    /\ ConfigsGet(cs, S("core.un")) = S("u")
    /\ ~IsSet(cs.local[1], S("core.cond"))
    /\ ~IsSet(cs.local[1], S("core.br"))
    /\ ConfigsGet(cs, S("core.cond")) = << >>
    /\ ConfigsGetAll(cs, S("core.br")) = << >>


\* ---------------------------------------------------------------------
\* the values a scope must hold after a reload: those of its file as it is
\* now, none when the file cannot be loaded
holdsItsFile(c) ==
    \E r \in LoadConfig(c.path, fs) :
        IF r.status = "ok" THEN c.vars = r.c.vars
        ELSE DOMAIN c.vars = {}

fileScopes == {"system", "global", "local", "worktree"}

\* C19. Reload replaces the stores wholesale: after Reload every file-backed
\* scope (system, global, local, worktree) holds exactly the values of its
\* file as it is at that time, and a scope whose file is gone or cannot be
\* loaded holds no values of the earlier load.
C19_ReloadWholesale ==
    (last.op = "Reload" /\ ~last.err) =>
        \A scope \in fileScopes :
            (cs[scope] # Nil /\ cs[scope][1].path # << >>) =>
                holdsItsFile(cs[scope][1])

\* /w/config was removed after LoadAll("/w"), Reload has run, and the local
\* scope still gives the value of the removed file
C19_StaleLocal ==
    /\ last.op = "Reload"
    /\ ~last.err
    /\ cs.workdir = S("/w")
    /\ cs.local # Nil
    /\ cs.local[1].path = S("/w/config")
    /\ ~isFile(fs, S("/w/config"))
    /\ Get(cs.local[1], S("core.foo")) = <<S("l"), TRUE>>


\* ---------------------------------------------------------------------
\* C20. The store that LoadConfigFromEnv builds is read-only and
\* non-persisting, whether or not the environment variables are set: a Set
\* on it (Configs.SetEnv after LoadAll) leaves every Get on it as it was and
\* writes no file, and so does an Unset on the store that LoadAll has just
\* built.
C20_EnvNotWriteable ==
    /\ (/\ last.op = "SetEnv"
        /\ last.pre.env = Some(LoadConfigFromEnv(EnvPrefix, environ)))
           => /\ cs.env[1].readonly
              /\ cs.env[1].noWrites
              /\ fs = last.prefs
              /\ \A key \in ScopeKeys :
                    Get(cs.env[1], key) = Get(last.pre.env[1], key)
    /\ (last.op = "LoadAll" /\ ~last.err)
           => \A key \in ScopeKeys :
                 \E r \in {Unset(cs.env[1], key, fs)} :
                    /\ r.fs = fs
                    /\ Get(r.c, key) = Get(cs.env[1], key)

\* LoadAll built the environment store, SetEnv was then called on it, and
\* Get on the store gives the value that was set; no file was written
C20_EnvOverlayChanged ==
    /\ last.op = "SetEnv"
    /\ origin.op = "LoadAll"
    /\ last.pre.env = Some(LoadConfigFromEnv(EnvPrefix, environ))
    /\ ~last.pre.env[1].readonly
    /\ last.pre.env[1].noWrites
    /\ ~last.err
    /\ Get(last.pre.env[1], last.key) # <<last.value, TRUE>>
    /\ Get(cs.env[1], last.key) = <<last.value, TRUE>>
    /\ fs = last.prefs


\* ---------------------------------------------------------------------
\* the section headers among the lines that name the section and the
\* subsection of w (a split canonical key)
matchingHeaders(lines, w) ==
    {i \in 1..Len(lines) :
        /\ HasPrefix(TrimSpace(lines[i]), <<"[">>)
        /\ \E hdr \in {parseSectionHeader(TrimSpace(lines[i]))} :
              ~hdr[3] /\ ToLower(hdr[1]) = w[1] /\ hdr[2] = w[2]}

\* the last line of the block whose header is line h
blockEnd(lines, h) ==
    Min({i - 1 : i \in {j \in (h + 1)..Len(lines) : HasPrefix(TrimSpace(lines[j]), <<"[">>)}}
        \cup {Len(lines)})

\* new is old with the one line put in after line p
insertedAfter(old, new, p, line) ==
    new = SubSeq(old, 1, p) \o <<line>> \o SubSeq(old, p + 1, Len(old))

\* the header line that opens a new block for the split key w
headerFor(w) ==
    IF w[2] # << >> THEN <<"[">> \o w[1] \o S(" \"") \o w[2] \o S("\"]")
    ELSE <<"[">> \o w[1] \o <<"]">>

\* C22: insert position.  A successful Set of a key that is not in the
\* index puts one new key line into the last block of the text whose header
\* names the section and subsection of the key, and only when no block does,
\* appends a new section header and the key line at the end of the text.
\* (The key line and the new header may spell the key as it was given or in
\* its canonical form.)
C22_InsertPosition ==
    (/\ last.op = "set" /\ ~last.err /\ ~last.pre.readonly
     /\ canonicalizeKey(last.key) # << >>
     /\ ~IsSet(last.pre, last.key))
        => \A old \in {ScanLines(last.pre.raw)}, new \in {ScanLines(cfg.raw)},
              w \in {splitKey(canonicalizeKey(last.key))} :
              \E g \in {w, splitKey(last.key)} :
                 \E line \in {formatKeyValue(g[3], last.value, << >>)} :
                    IF matchingHeaders(old, w) = {}
                    THEN new = old \o <<headerFor(g), line>>
                    ELSE \E h \in {Max(matchingHeaders(old, w))} :
                            \E p \in h..blockEnd(old, h) :
                               insertedAfter(old, new, p, line)

\* the text with two [core] blocks was parsed and Set("core.inc", "d") has
\* put the line of core.inc into the first of them
C22_InsertedIntoFirstBlock ==
    /\ origin.op = "parse" /\ nops = 1
    /\ last.op = "set" /\ ~last.err /\ last.key = S("core.inc") /\ last.value = S("d")
    /\ last.pre.raw = S("[core]\n\tfoo = a\n[other]\n\tint = x\n[core]\n\tint = 7\n")
    /\ cfg.raw = S("[core]\n\tinc = d\n\tfoo = a\n[other]\n\tint = x\n[core]\n\tint = 7\n")


\* ---------------------------------------------------------------------
\* C23: the no-op condition of Set.  A successful Set(k, v) on a writable
\* Config of a key that is set leaves the Config and the files as they were
\* only when v is already the first value of k; in every other case, also
\* when v is a later value of k, afterwards the first value of k is v and
\* the first line of the text that assigns k assigns v.
C23_SetNoOp ==
    \A ck \in {canonicalizeKey(last.key)} :
        (/\ last.op = "set" /\ ~last.err /\ ~last.pre.readonly
         /\ ck # << >> /\ IsSet(last.pre, last.key)
         /\ ParseConfig(last.pre.raw).vars = last.pre.vars)
            => IF Get(last.pre, last.key) = <<last.value, TRUE>>
               THEN cfg = last.pre /\ fs = last.prefs
               ELSE /\ Get(cfg, last.key) = <<last.value, TRUE>>
                    /\ cfg.raw # last.pre.raw
                    /\ assigned(cfg.raw, ck) # << >>
                    /\ assigned(cfg.raw, ck)[1] = last.value

\* the text "[core] foo = a, foo = b, foo = c" was parsed and
\* Set("core.foo", "b") has returned success without changing anything:
\* the first value of core.foo is still a
C23_LaterValueSkipped ==
    /\ origin.op = "parse" /\ origin.arg = S("[core]\n\tfoo = a\n\tfoo = b\n\tfoo = c\n")
    /\ nops = 1
    /\ last.op = "set" /\ ~last.err /\ last.key = S("core.foo") /\ last.value = S("b")
    /\ GetAll(last.pre, last.key) = << <<S("a"), S("b"), S("c")>>, TRUE>>
    /\ cfg = last.pre
    /\ Get(cfg, last.key) = <<S("a"), TRUE>>


\* ---------------------------------------------------------------------
\* the includeIf keys of a Config whose condition is a gitdir: or gitdir/i:
\* pattern
gitdirKeys(c) ==
    {k \in DOMAIN c.vars :
        /\ HasSuffix(k, S(".path"))
        /\ \/ HasPrefix(k, S("includeif.gitdir:"))
           \/ HasPrefix(k, S("includeif.gitdir/i:"))}

\* the gitdir predicate as stated: workdir equals the pattern up to a
\* trailing slash, or the pattern ends with "/" and workdir starts with it;
\* letters compared without case for gitdir/i:
gitdirHolds(subsec, workdir) ==
    \E fold \in {HasPrefix(subsec, S("gitdir/i:"))},
       pattern \in {SubSeq(subsec, Index(subsec, ":") + 1, Len(subsec))} :
       \E w \in {IF fold THEN ToLower(workdir) ELSE workdir},
          p \in {IF fold THEN ToLower(pattern) ELSE pattern} :
          \/ TrimSuffix(w, <<"/">>) = TrimSuffix(p, <<"/">>)
          \/ HasSuffix(p, <<"/">>) /\ HasPrefix(w, p)

\* C24: the gitdir predicate.  When a load has ended with success, the file
\* named by an includeIf entry of the root with a gitdir: or gitdir/i:
\* condition has been loaded exactly when workdir equals the pattern up to a
\* trailing slash, or the pattern ends with "/" and workdir starts with the
\* pattern (for gitdir/i: without regard to letter case).
C24_GitdirPredicate ==
    (ld.status = "ok" /\ isFile(fs, call.fn))
        => \A k \in gitdirKeys(alone(call.fn)) :
              \A v \in Range(alone(call.fn).vars[k]) :
                 \A q \in Range(nestedPath(v, call.fn)) :
                    (q \in ld.loaded) <=> gitdirHolds(splitKey(k)[2], call.workdir)

\* /w/order (includeIf "gitdir:/w/", path = a) was loaded with the workdir
\* /w/sub, which lies in /w/, and /w/a has not been loaded
C24_InsideNotMatched ==
    /\ ld.status = "ok"
    /\ call.fn = S("/w/order") /\ call.workdir = S("/w/sub")
    /\ S("includeif.gitdir:/w/.path") \in gitdirKeys(alone(call.fn))
    /\ gitdirHolds(S("gitdir:/w/"), call.workdir)
    /\ S("/w/a") \notin ld.loaded
    /\ S("/w/b") \in ld.loaded


\* ---------------------------------------------------------------------
\* C25: uniform predicate evaluation.  When a load has ended with success,
\* every file that was loaded, the root or an included file at any depth,
\* has had its include directives taken the same way: the files named by
\* its include entries and by its includeIf entries whose predicate holds
\* for the workdir and the branch of the call have been loaded too, and no
\* file has been loaded that no loaded file names in this way.
C25_UniformPredicates ==
    (ld.status = "ok")
        => /\ \A q \in ld.loaded : dueRefs(q, call.workdir) \subseteq ld.loaded
           /\ \A q \in ld.loaded \ {call.fn} :
                 \E p \in ld.loaded : q \in dueRefs(p, call.workdir)

\* /w/nest includes /w/nbr, whose includeIf "onbranch:main" names
\* bar.config; loaded as the root with the workdir /w (branch main) /w/nbr
\* brings /w/bar.config in, loaded through /w/nest it does not
C25_BranchUnknownInInclude ==
    /\ ld.status = "ok"
    /\ call.fn = S("/w/nest") /\ call.workdir = S("/w")
    /\ readGitBranch(call.workdir, fs) = S("main")
    /\ S("/w/nbr") \in ld.loaded
    /\ S("/w/bar.config") \in dueRefs(S("/w/nbr"), call.workdir)
    /\ The(loadStart(S("/w/nbr"), S("/w"), fs)).queue = <<S("/w/bar.config")>>
    /\ S("/w/bar.config") \notin ld.loaded
    /\ S("/w/a") \in ld.loaded


\* ---------------------------------------------------------------------
\* a condition that is a well-formed gitdir:, gitdir/i: or onbranch:
\* predicate: the kind, a colon, a pattern, and for onbranch: a valid glob
supportedPredicate(subsec) ==
    \E pattern \in {SubSeq(subsec, Index(subsec, ":") + 1, Len(subsec))} :
       /\ Index(subsec, ":") # 0
       /\ pattern # << >>
       /\ \/ HasPrefix(subsec, S("gitdir:"))
          \/ HasPrefix(subsec, S("gitdir/i:"))
          \/ HasPrefix(subsec, S("onbranch:")) /\ globCompiles(pattern)

\* the includeIf keys of a Config whose condition is not such a predicate
unsupportedKeys(c) ==
    {k \in DOMAIN c.vars :
        /\ HasPrefix(k, S("includeif.")) /\ HasSuffix(k, S(".path"))
        /\ validCandidate(splitKey(k))
        /\ ~supportedPredicate(splitKey(k)[2])}

\* C26: unsupported predicates are skipped.  An includeIf entry of the root
\* whose condition is not a well-formed gitdir:, gitdir/i: or onbranch:
\* predicate (unknown kind, no colon or no pattern, invalid glob) counts as
\* not matching: the load ends without failure and the file the entry names
\* is not loaded.
C26_UnsupportedSkipped ==
    (ld.status \in {"ok", "err", "panic"} /\ isFile(fs, call.fn))
        => \A k \in unsupportedKeys(alone(call.fn)) :
              /\ ld.status = "ok"
              /\ \A v \in Range(alone(call.fn).vars[k]) :
                    \A q \in Range(nestedPath(v, call.fn)) : q \notin ld.loaded

\* /w/nopat (includeIf "gitdir:", no pattern) was loaded without a workdir
\* and the file its entry names has been loaded
C26_EmptyPatternMatches ==
    /\ ld.status = "ok"
    /\ call.fn = S("/w/nopat") /\ call.workdir = << >>
    /\ unsupportedKeys(alone(call.fn)) = {S("includeif.gitdir:.path")}
    /\ S("/w/a") \in ld.loaded


\* ---------------------------------------------------------------------
\* a canonical key: a lower-case section and a lower-case key name, both
\* non-empty, around the subsection as written
isCanonical(k) == k # << >> /\ canonicalizeKey(k) = k

\* C27: canonical index keys.  Every key of the index of a Config is a
\* canonical key, however the Config was made (from a file, from a text,
\* empty, from a map) and after every Set and Unset, whatever the letter
\* case of the keys they were called with.
C27_CanonicalIndex ==
    constructed => \A k \in DOMAIN cfg.vars : isCanonical(k)

\* Set("Core.Foo", "d") on the Config parsed from the empty text succeeded
\* and the index has the key Core.Foo, as spelled by the caller
C27_KeyAsSpelled ==
    /\ origin.op = "parse" /\ origin.arg = << >> /\ nops = 1
    /\ last.op = "set" /\ ~last.err /\ last.key = S("Core.Foo")
    /\ DOMAIN cfg.vars = {S("Core.Foo")}
    /\ ~isCanonical(S("Core.Foo"))


\* ---------------------------------------------------------------------
\* the position of the first "#" or ";" of s at or after i that is outside
\* double quotes (0: none); inQuotes says whether position i is inside
RECURSIVE firstOutside(_, _, _)
firstOutside(s, i, inQuotes) ==
    IF i > Len(s) THEN 0
    ELSE IF s[i] = "\"" THEN firstOutside(s, i + 1, ~inQuotes)
    ELSE IF s[i] \in {"#", ";"} /\ ~inQuotes THEN i
    ELSE firstOutside(s, i + 1, inQuotes)

\* s without one pair of enclosing double quotes
unquoted(s) ==
    IF Len(s) >= 2 /\ s[1] = "\"" /\ s[Len(s)] = "\""
    THEN SubSeq(s, 2, Len(s) - 1) ELSE s

\* <<value, comment>> of the text rv that follows "=" on a key line, as the
\* quote-aware split gives them
splitOutside(rv) ==
    IF firstOutside(rv, 1, FALSE) = 0 THEN <<unquoted(TrimSpace(rv)), << >> >>
    ELSE <<unquoted(TrimSpace(SubSeq(rv, 1, firstOutside(rv, 1, FALSE) - 1))),
           TrimSpace(SubSeq(rv, firstOutside(rv, 1, FALSE) + 1, Len(rv)))>>

\* a comment without the delimiter and the blanks in front of it
commentText(c) ==
    IF TrimSpace(c) # << >> /\ TrimSpace(c)[1] \in {"#", ";"}
    THEN TrimSpace(Tail(TrimSpace(c))) ELSE TrimSpace(c)

\* the texts after "=" on the key lines of a text
rawValues(text) ==
    {TrimSpace(Cut(l, "=")[2]) :
        l \in {x \in {TrimSpace(y) : y \in Range(ScanLines(text))} :
                  /\ ~HasPrefix(x, <<"#">>) /\ ~HasPrefix(x, <<";">>)
                  /\ ~HasPrefix(x, <<"[">>)
                  /\ Cut(x, "=")[3]}}

\* C28: quote-aware comment split.  For every key line of a parsed text the
\* value in the index is the text before the first "#" or ";" outside double
\* quotes, trimmed and without one enclosing pair of double quotes, and the
\* comment is the text after that delimiter; a "#" or ";" inside double
\* quotes starts no comment.
C28_QuoteAwareSplit ==
    (origin.op = "parse" /\ nops = 0)
        => \A rv \in rawValues(origin.arg) :
              /\ splitOutside(rv)[1] \in UNION {Range(cfg.vars[k]) : k \in DOMAIN cfg.vars}
              /\ splitValueComment(rv)[1] = splitOutside(rv)[1]
              /\ commentText(splitValueComment(rv)[2]) = splitOutside(rv)[2]

\* the text with the line int = x "y # z" was parsed: the "#" is inside
\* double quotes, and the value of core.int in the index ends before it
C28_SplitInsideQuotes ==
    /\ origin.op = "parse" /\ nops = 0
    /\ S("x \"y # z\"") \in rawValues(origin.arg)
    /\ firstOutside(S("x \"y # z\""), 1, FALSE) = 0
    /\ Get(cfg, S("core.int")) = <<S("x \"y"), TRUE>>
    /\ Get(cfg, S("core.foo")) = <<S("a # b"), TRUE>>


(***************************************************************************)
(* C29: deterministic loading                                              *)
(***************************************************************************)

\* the loads of the call's file that loadConfigs can end with on this disk
\* with this workdir: one for each order in which the maps are iterated
possibleLoads == loadConfigs(call.fn, call.workdir, fs)

\* the number of conditional include keys of the file at p that are in force
conditionsInForce(p, workdir) ==
    The({Cardinality(filterCandidates(
                        {k \in DOMAIN c.vars :
                            HasPrefix(k, S("includeif.")) /\ HasSuffix(k, S(".path"))},
                        workdir, c).keep)
         : c \in {[loadConfig(p, fs).c EXCEPT !.path = p,
                                               !.branch = IF p = call.fn
                                                          THEN readGitBranch(workdir, fs)
                                                          ELSE << >>]}})

\* C29: deterministic loading.  When a load has succeeded, every load of the
\* same file with the same workdir on the same disk succeeds with the same
\* index: the same keys, and for every key the same values in the same order
\* (the order GetAll returns), also when several includeIf conditions match.
C29_DeterministicLoad ==
    (ld.status = "ok")
        => \A r \in possibleLoads :
              /\ r.status = "ok"
              /\ DOMAIN r.c.vars = DOMAIN ld.c.vars
              /\ \A k \in DOMAIN ld.c.vars : GetAll(r.c, k) = GetAll(ld.c, k)

\* /w/two has two includeIf conditions that hold for workdir /w; this load
\* read a before b, and another load of the same file reads b before a
C29_TwoOrders ==
    /\ ld.status = "ok" /\ call.fn = S("/w/two") /\ call.workdir = S("/w")
    /\ conditionsInForce(call.fn, call.workdir) = 2
    /\ GetAll(ld.c, S("core.k")) = <<<<S("1"), S("2")>>, TRUE>>
    /\ \E r \in possibleLoads :
          /\ r.status = "ok"
          /\ GetAll(r.c, S("core.k")) = <<<<S("2"), S("1")>>, TRUE>>


(***************************************************************************)
(* C30: GetFrom on a scope that is absent or not loaded                    *)
(***************************************************************************)

\* the scope a name stands for has no Config, or its Config has no index
notLoaded(scope) ==
    \A f \in {fieldOf(scope)} : f = "none" \/ cs[f] = Nil \/ cs[f][1].varsNil

\* C30: GetFrom never faults.  For every key and every scope name (env,
\* worktree, local, global, system, preset in any case, or an unknown name)
\* GetFrom(key, scope) returns; and it returns ("", false) when the name is
\* unknown, when the named scope has no Config (for example no Preset was
\* configured) and when its Config has no loaded index.
C30_GetFromNeverFaults ==
    \A key \in ScopeKeys : \A scope \in ScopeNames :
       \A g \in {GetFrom(cs, key, scope)} :
          /\ ~g.panic
          /\ notLoaded(scope) => g.value = << >> /\ ~g.found

\* LoadAll has run on a Configs for which no Preset was configured: the
\* other five scopes answer GetFrom, and GetFrom(key, "preset") calls Get
\* on a nil *Config
C30_NilPresetDereferenced ==
    /\ last.op = "LoadAll" /\ ~last.err
    /\ cs.Preset = Nil
    /\ \A f \in {"env", "worktree", "local", "global", "system"} : cs[f] # Nil
    /\ ~GetFrom(cs, S("core.foo"), S("global")).panic
    /\ GetFrom(cs, S("core.foo"), S("other"))
          = [panic |-> FALSE, value |-> << >>, found |-> FALSE]
    /\ GetFrom(cs, S("core.foo"), S("preset")).panic


(***************************************************************************)
(* SpecReaders: goroutines that read a loaded Config and a loaded Configs  *)
(* at the same time.  No goroutine writes, so the reads of the goroutines  *)
(* are interleaved in some order; a step is one read of the shared maps:   *)
(* a whole Config.Get, GetAll or IsSet, a whole GetLocal or GetGlobal, or  *)
(* one iteration of the loop of Configs.Get or Configs.GetAll.             *)
(***************************************************************************)

\* Configs.GetGlobal(key)
ConfigsGetGlobal(cs0, key) ==
    IF cs0.global = Nil THEN << >>
    ELSE IF Get(cs0.global[1], key)[2] THEN Get(cs0.global[1], key)[1]
    ELSE << >>

\* Configs.GetLocal(key)
ConfigsGetLocal(cs0, key) ==
    IF cs0.local = Nil THEN << >>
    ELSE IF Get(cs0.local[1], key)[2] THEN Get(cs0.local[1], key)[1]
    ELSE << >>

\* the goroutines, the reads they make, the keys they ask for
Readers  == {1, 2}
ReadOps  == {"Get", "GetAll", "IsSet", "Configs.Get", "Configs.GetAll",
             "Configs.GetLocal", "Configs.GetGlobal"}
ReadKeys == {S("core.foo"), S("Core.Pre")}

\* the texts the shared Config is parsed from
ReaderTexts == {S("[core]\n\tfoo = a\n\tfoo = b\n"), S("[core]\n\tpre = c\n")}

\* a goroutine that is not reading
Idle == [status |-> "idle", op |-> "none", key |-> << >>, pos |-> 0,
         result |-> << >>, overlapped |-> FALSE]

\* the goroutine rd after its next step on the Config c0 and the Configs cs0
readerAfter(cs0, c0, rd) ==
    LET returned(result) == [rd EXCEPT !.status = "done", !.result = result]
    IN
    IF rd.op = "Get" THEN returned(Get(c0, rd.key))
    ELSE IF rd.op = "GetAll" THEN returned(GetAll(c0, rd.key))
    ELSE IF rd.op = "IsSet" THEN returned(IsSet(c0, rd.key))
    ELSE IF rd.op = "Configs.GetLocal" THEN returned(ConfigsGetLocal(cs0, rd.key))
    ELSE IF rd.op = "Configs.GetGlobal" THEN returned(ConfigsGetGlobal(cs0, rd.key))
    ELSE \* one iteration of "for _, cfg := range []*Config{cs.env, ...}"
         The({IF p = Nil THEN next
              ELSE IF p[1].varsNil THEN next
              ELSE IF rd.op = "Configs.Get"
                   THEN IF Get(p[1], rd.key)[2] THEN returned(Get(p[1], rd.key)[1])
                        ELSE next
              ELSE IF GetAll(p[1], rd.key)[2] THEN returned(GetAll(p[1], rd.key)[1])
              ELSE next
              : p    \in {<<cs0.env, cs0.worktree, cs0.local, cs0.global, cs0.system,
                             cs0.Preset>>[rd.pos]},
                next \in {IF rd.pos = 6 THEN returned(<< >>)
                          ELSE [rd EXCEPT !.pos = @ + 1]}})

\* a Configs.Get that would remember the value it found in the environment
\* scope's index
readStepMemo(cs0, c0, rd) ==
    The({[cs  |-> IF rd.op = "Configs.Get" /\ n.status = "done" /\ n.result # << >>
                     /\ cs0.env # Nil
                  THEN [cs0 EXCEPT !.env = Some([cs0.env[1] EXCEPT
                           !.vars = (canonicalizeKey(rd.key) :> <<n.result>>) @@ @,
                           !.varsNil = FALSE])]
                  ELSE cs0,
          cfg |-> c0,
          rd  |-> n]
         : n \in {readerAfter(cs0, c0, rd)}})

\* one step of a read: the Configs and the Config after it (no read path
\* assigns to either), and the goroutine after it
readStep(cs0, c0, rd) == [cs |-> cs0, cfg |-> c0, rd |-> readerAfter(cs0, c0, rd)]

\* the Configs has been loaded (with or without a Preset, in each
\* environment) and the Config has been parsed before the goroutines start
InitReaders ==
    /\ fs = ScopeDisk
    /\ environ \in Envs
    /\ \E base \in {New} \cup {[New EXCEPT !.Preset = Some(NewFromMap(data))]
                                : data \in Presets} :
          cs \in {x.cs : x \in {y \in LoadAll(base, S("/w"), environ, fs) : ~y.panic}}
    /\ cfg \in {ParseConfig(text) : text \in ReaderTexts}
    /\ origin = [op |-> "loaded", arg |-> <<cs, cfg>>, failed |-> FALSE]
    /\ last = NoOp
    /\ nops = 0
    /\ ld = loaderFailed("idle")
    /\ call = [r \in Readers |-> Idle]

\* a goroutine calls a read
StartRead ==
    /\ \E r \in Readers, op \in ReadOps, key \in ReadKeys :
          /\ call[r].status = "idle"
          /\ call' = [call EXCEPT ![r] = [Idle EXCEPT !.status = "running", !.op = op,
                                                      !.key = key, !.pos = 1]]
    /\ UNCHANGED <<environ, fs, cfg, origin, last, nops, ld, cs>>

\* a goroutine takes the next step of its read
ReadStep ==
    /\ \E r \in Readers :
          /\ call[r].status = "running"
          /\ \E n \in {readStep(cs, cfg, call[r])} :
                /\ cs' = n.cs
                /\ cfg' = n.cfg
                /\ call' = [call EXCEPT ![r] =
                              [n.rd EXCEPT !.overlapped =
                                  @ \/ \E q \in Readers \ {r} :
                                          call[q].status = "running" /\ call[q].pos > 1]]
    /\ UNCHANGED <<environ, fs, origin, last, nops, ld>>

NextReaders == StartRead \/ ReadStep

SpecReaders == InitReaders /\ [][NextReaders]_vars

\* what a read returns when it runs alone on the Config c0 and the Configs cs0
sequentialResult(cs0, c0, op, key) ==
    IF op = "Get" THEN Get(c0, key)
    ELSE IF op = "GetAll" THEN GetAll(c0, key)
    ELSE IF op = "IsSet" THEN IsSet(c0, key)
    ELSE IF op = "Configs.Get" THEN ConfigsGet(cs0, key)
    ELSE IF op = "Configs.GetAll" THEN ConfigsGetAll(cs0, key)
    ELSE IF op = "Configs.GetLocal" THEN ConfigsGetLocal(cs0, key)
    ELSE ConfigsGetGlobal(cs0, key)

====
